---------------------------- MODULE Spec2Model ----------------------------
(***************************************************************************)
(* A model of the 6502 core of NES_emu: the flat memory (memory.c), the    *)
(* bus facade (bus.c) and the CPU (cpu.c: reset, stack, flags, program     *)
(* fetch, cpu_execute and its opcode cases).                               *)
(*                                                                         *)
(* The machine state a C function works on is held in a record             *)
(*   [PC, SP, A, X, Y, flags, mem, cycles, log]                            *)
(* PC..flags are the fields of the CPU struct, mem is the static array of  *)
(* memory.c, cycles is the by-value Byte parameter of cpu_execute, and log *)
(* is an observation of the bus: the accesses made by the operation in     *)
(* progress, in order.  Functions that return a value and change the state *)
(* yield a record [data, cpu].                                             *)
(***************************************************************************)
EXTENDS Integers, Sequences, FiniteSets, TLC

VARIABLES
    PC, SP, A, X, Y, flags,  \* the CPU struct
    mem,                     \* the memory array
    cycles,                  \* the budget of the cpu_execute call in progress
    mode,                    \* "idle": the embedder runs; "run": in cpu_execute
    log,                     \* bus accesses of the last operation
    op, arg,                 \* the last operation and what it was given / gave
    calls,                   \* number of embedder calls made so far
    trail,                   \* the calls made so far, in order (stack, bus)
    start                    \* the machine state the run started from

vars == <<PC, SP, A, X, Y, flags, mem, cycles, mode, log, op, arg, calls,
          trail, start>>

(***************************************************************************)
(* Types.  Byte and Word are the unsigned 8 and 16 bit integers of         *)
(* types.h; arithmetic assigned to them is reduced modulo their range.     *)
(***************************************************************************)
Byte == 0..255
Word == 0..65535

ToByte(n) == n % 256
ToWord(n) == n % 65536

\* The flag positions of the Flags enum.
C == 0
Z == 1
I == 2
D == 3
B == 4
U == 5
V == 6
N == 7

(***************************************************************************)
(* Bit arithmetic on non-negative integers of at most w bits.              *)
(***************************************************************************)
RECURSIVE BitAndW(_, _, _)
BitAndW(a, b, w) ==
    IF w = 0 THEN 0
    ELSE (a % 2) * (b % 2) + 2 * BitAndW(a \div 2, b \div 2, w - 1)

RECURSIVE BitOrW(_, _, _)
BitOrW(a, b, w) ==
    IF w = 0 THEN 0
    ELSE (IF (a % 2) + (b % 2) > 0 THEN 1 ELSE 0)
         + 2 * BitOrW(a \div 2, b \div 2, w - 1)

RECURSIVE BitXorW(_, _, _)
BitXorW(a, b, w) ==
    IF w = 0 THEN 0
    ELSE (((a % 2) + (b % 2)) % 2) + 2 * BitXorW(a \div 2, b \div 2, w - 1)

BitAnd(a, b) == BitAndW(a, b, 16)
BitOr(a, b)  == BitOrW(a, b, 16)
BitXor(a, b) == BitXorW(a, b, 16)
\* ~mask of a Byte mask, as it acts on a Byte operand
BitNot8(a)   == 255 - a
\* 0x01 << n kept in a Byte
Shl1(n)      == ToByte(2 ^ n)
\* (value >> position) & 0x01
BitOf(value, position) == (value \div (2 ^ position)) % 2

(***************************************************************************)
(* memory.c.  mem is the array Byte mem[MEM_SIZE]; it is held as the       *)
(* function from the addresses of its non-zero cells to their contents,    *)
(* every other cell of the 65536 being 0x00.                               *)
(***************************************************************************)
MEM_SIZE == 64 * 1024

MemCell(m, addr) == IF addr \in DOMAIN m THEN m[addr] ELSE 0

\* variant: the fill stops one byte short of the end of the array
mem_reset_short(m) == [a \in (DOMAIN m) \cap {MEM_SIZE - 1} |-> m[a]]

mem_reset(m) == [a \in {} |-> 0]

mem_read(m, addr) == MemCell(m, addr)

mem_write(m, addr, data) ==
    IF data = 0
    THEN [a \in (DOMAIN m) \ {addr} |-> m[a]]
    ELSE [a \in (DOMAIN m) \cup {addr} |-> IF a = addr THEN data ELSE m[a]]

(***************************************************************************)
(* bus.c                                                                   *)
(***************************************************************************)
MEM_START == 0
MEM_END   == 65535

bus_reset(m) == mem_reset(m)

\* the value bus_read returns for addr
bus_value(m, addr) ==
    IF addr >= MEM_START /\ addr <= MEM_END THEN mem_read(m, addr) ELSE 0

\* variant: the range test excludes MEM_END itself
bus_store_exclusive_end(m, addr, data) ==
    IF addr >= MEM_START /\ addr < MEM_END THEN mem_write(m, addr, data) ELSE m

bus_store(m, addr, data) ==
    IF addr >= MEM_START /\ addr <= MEM_END THEN mem_write(m, addr, data) ELSE m

\* bus_read / bus_write as the CPU issues them: the access is logged
bus_read(s, addr) ==
    LET d == bus_value(s.mem, addr)
    IN  [data |-> d, cpu |-> [s EXCEPT !.log = Append(@, <<"R", addr, d>>)]]

bus_write(s, addr, data) ==
    [s EXCEPT !.mem = bus_store(@, addr, data),
              !.log = Append(@, <<"W", addr, data>>)]

(***************************************************************************)
(* cpu.c: reset, stack, flags, program fetch                               *)
(***************************************************************************)
\* variant: the boot values of the earlier revision of cpu_reset
cpu_reset_earlier(s) ==
    [s EXCEPT !.PC = 256, !.SP = 253, !.A = 0, !.X = 0, !.Y = 0,
              !.flags = 36, !.mem = bus_reset(@)]

cpu_reset(s) ==
    [s EXCEPT !.PC = 511, !.SP = 255, !.A = 0, !.X = 0, !.Y = 0,
              !.flags = 36, !.mem = bus_reset(@)]

\* variant: the write goes to SP without the page-one base
stack_push_no_base(value, s) ==
    LET w == bus_write(s, s.SP, value)
    IN  [w EXCEPT !.SP = ToByte(@ + 256 - 1)]

stack_push(value, s) ==
    LET w == bus_write(s, 256 + s.SP, value)
    IN  [w EXCEPT !.SP = ToByte(@ + 256 - 1)]

\* variant: SP stops at 0xFF instead of wrapping to 0x00
stack_pop_saturating(s) ==
    LET c == [s EXCEPT !.SP = IF @ = 255 THEN 255 ELSE @ + 1]
    IN  bus_read(c, 256 + c.SP)

\* variant: the byte is read before SP is incremented
stack_pop_read_first(s) ==
    LET r == bus_read(s, 256 + s.SP)
    IN  [data |-> r.data, cpu |-> [r.cpu EXCEPT !.SP = ToByte(@ + 1)]]

stack_pop(s) ==
    LET c == [s EXCEPT !.SP = ToByte(@ + 1)]
    IN  bus_read(c, 256 + c.SP)

cpu_read_flag(flag, s) == BitOf(s.flags, flag)

\* variant: the unused bit is not forced
cpu_set_flag_unforced(flag, value, s) ==
    LET mask == Shl1(flag)
    IN  [s EXCEPT !.flags = IF value = 0 THEN BitAnd(@, BitNot8(mask))
                                         ELSE BitOr(@, mask)]

cpu_set_flag(flag, value, s) ==
    LET mask == Shl1(flag)
        f1   == IF value = 0 THEN BitAnd(s.flags, BitNot8(mask))
                             ELSE BitOr(s.flags, mask)
    IN  [s EXCEPT !.flags = BitOr(f1, Shl1(U))]

cpu_toggle_flag(flag, s) ==
    [s EXCEPT !.flags = BitXor(@, Shl1(flag))]

\* variant: the program counter is not reduced to 16 bits
fetch_program_byte_no_wrap(s) ==
    LET r == bus_read(s, s.PC)
    IN  [data |-> r.data, cpu |-> [r.cpu EXCEPT !.PC = @ + 1]]

fetch_program_byte(s) ==
    LET r == bus_read(s, s.PC)
    IN  [data |-> r.data, cpu |-> [r.cpu EXCEPT !.PC = ToWord(@ + 1)]]

fetch_program_word(s) ==
    LET lo == fetch_program_byte(s)
        hi == fetch_program_byte(lo.cpu)
    IN  [data |-> BitOr(lo.data, hi.data * 256), cpu |-> hi.cpu]

\* cycles -= n on the Byte budget
SubCycles(s, n) == [s EXCEPT !.cycles = ToByte(@ + 256 - n)]

\* 1 when the two addresses differ in their high byte, else 0
PageCross(addr, base) ==
    IF BitAnd(addr, 65280) # BitAnd(base, 65280) THEN 1 ELSE 0

Bool(b) == IF b THEN 1 ELSE 0

(***************************************************************************)
(* opcodes.h                                                               *)
(***************************************************************************)
OPC_AND_IM   == 41
OPC_AND_ZP   == 37
OPC_AND_ZPX  == 53
OPC_AND_ABS  == 45
OPC_AND_ABSX == 61
OPC_AND_ABSY == 57
OPC_AND_INDX == 33
OPC_AND_INDY == 49
OPC_ADC_IM   == 105
OPC_ASL_ACC  == 10
OPC_ASL_ZP   == 26
OPC_ASL_ZPX  == 22
OPC_ASL_ABS  == 14
OPC_ASL_ABSX == 30
OPC_LDA_IM   == 169
OPC_LDA_ZP   == 165
OPC_LDA_ZPX  == 181
OPC_LDA_ABS  == 173
OPC_LDA_ABSX == 189
OPC_LDA_ABSY == 185
OPC_LDA_INDX == 161
OPC_LDA_INDY == 177
OPC_STA_ZP   == 133
OPC_STA_ZPX  == 149
OPC_STA_ABS  == 141
OPC_STA_ABSX == 157
OPC_STA_ABSY == 153
OPC_STA_INDX == 129
OPC_STA_INDY == 145
OPC_BCC_REL  == 144
OPC_BCS_REL  == 176
OPC_BEQ_REL  == 240
OPC_BMI_REL  == 48
OPC_BNE_REL  == 208
OPC_BPL_REL  == 16
OPC_BVC_REL  == 80
OPC_BVS_REL  == 112
OPC_BIT_ZP   == 36
OPC_BIT_ABS  == 44
OPC_BRK_IMP  == 0

(***************************************************************************)
(* cpu.c: the convenience functions of cpu_execute                         *)
(***************************************************************************)
indexed_LDA_ABS(s, index) ==
    LET w     == fetch_program_word(s)
        base  == w.data
        addr  == ToWord(base + index)
        extra == PageCross(addr, base)
        r     == bus_read(w.cpu, addr)
    IN  SubCycles([r.cpu EXCEPT !.A = r.data], 4 + extra)

indexed_STA_ABS(s, index) ==
    LET w    == fetch_program_word(s)
        addr == ToWord(w.data + index)
    IN  bus_write(w.cpu, addr, w.cpu.A)

\* variant: no extra cycle when the index carries into the high byte
indexed_AND_ABS_flat(s, index) ==
    LET w     == fetch_program_word(s)
        base  == w.data
        addr  == ToWord(base + index)
        r     == bus_read(w.cpu, addr)
    IN  SubCycles([r.cpu EXCEPT !.A = BitAnd(@, r.data)], 4)

indexed_AND_ABS(s, index) ==
    LET w     == fetch_program_word(s)
        base  == w.data
        addr  == ToWord(base + index)
        extra == PageCross(addr, base)
        r     == bus_read(w.cpu, addr)
    IN  SubCycles([r.cpu EXCEPT !.A = BitAnd(@, r.data)], 4 + extra)

\* (int8_t) operand
SignExtend(operand) == IF operand >= 128 THEN operand - 256 ELSE operand

\* variant: a taken branch costs 3 wherever it leads
branch_same_page_cost(s, flag, carry_val) ==
    LET f      == fetch_program_byte(s)
        c      == f.cpu
        offset == SignExtend(f.data)
        new_PC == ToWord(c.PC + offset + 65536)
    IN  IF flag = carry_val
        THEN SubCycles([c EXCEPT !.PC = new_PC], 3)
        ELSE SubCycles(c, 2)

branch(s, flag, carry_val) ==
    LET f      == fetch_program_byte(s)
        c      == f.cpu
        offset == SignExtend(f.data)
        new_PC == ToWord(c.PC + offset + 65536)
        extra  == PageCross(c.PC, new_PC)
    IN  IF flag = carry_val
        THEN SubCycles([c EXCEPT !.PC = new_PC], ToByte(2 + 1 + extra))
        ELSE SubCycles(c, 2)

\* variant: N taken from bit 6 of the accumulator
set_NZ_flags_bit6(s) ==
    LET z == cpu_set_flag(Z, Bool(s.A = 0), s)
    IN  cpu_set_flag(N, BitAnd(s.A \div 64, 1), z)

set_NZ_flags(s) ==
    LET z == cpu_set_flag(Z, Bool(s.A = 0), s)
    IN  cpu_set_flag(N, BitAnd(s.A \div 128, 1), z)

read_bit(value, position) == BitOf(value, position)

\* variant: the high byte is read at p + 1 without the wrap to page 0
ReadPointer_carry(s, p) ==
    LET lo == bus_read(s, BitAnd(p, 255))
        hi == bus_read(lo.cpu, BitAnd(p, 255) + 1)
    IN  [data |-> BitOr(lo.data, hi.data * 256), cpu |-> hi.cpu]

\* the little-endian pointer held at zero-page addresses p and (p + 1) & 0xFF
ReadPointer(s, p) ==
    LET lo == bus_read(s, BitAnd(p, 255))
        hi == bus_read(lo.cpu, BitAnd(p + 1, 255))
    IN  [data |-> BitOr(lo.data, hi.data * 256), cpu |-> hi.cpu]

(***************************************************************************)
(* cpu_execute: the cases of the switch.  Each takes the state after the   *)
(* opcode fetch and yields the state at the case's break.                  *)
(***************************************************************************)
\* variant: the byte is loaded into X
Case_LDA_IM_into_X(s) ==
    LET f == fetch_program_byte(s)
    IN  SubCycles(set_NZ_flags([f.cpu EXCEPT !.X = f.data]), 2)

Case_LDA_IM(s) ==
    LET f == fetch_program_byte(s)
    IN  SubCycles(set_NZ_flags([f.cpu EXCEPT !.A = f.data]), 2)

Case_LDA_ZP(s) ==
    LET f == fetch_program_byte(s)
        r == bus_read(f.cpu, BitAnd(f.data, 255))
    IN  SubCycles(set_NZ_flags([r.cpu EXCEPT !.A = r.data]), 3)

\* variant: the sum of operand and X is not reduced to a byte
Case_LDA_ZPX_carry(s) ==
    LET f    == fetch_program_byte(s)
        addr == f.data + f.cpu.X
        r    == bus_read(f.cpu, addr)
    IN  SubCycles(set_NZ_flags([r.cpu EXCEPT !.A = r.data]), 4)

Case_LDA_ZPX(s) ==
    LET f    == fetch_program_byte(s)
        addr == ToByte(f.data + f.cpu.X)
        r    == bus_read(f.cpu, BitAnd(addr, 255))
    IN  SubCycles(set_NZ_flags([r.cpu EXCEPT !.A = r.data]), 4)

Case_LDA_ABS(s) ==
    LET w == fetch_program_word(s)
        r == bus_read(w.cpu, w.data)
    IN  SubCycles(set_NZ_flags([r.cpu EXCEPT !.A = r.data]), 4)

Case_LDA_ABSX(s) == set_NZ_flags(indexed_LDA_ABS(s, s.X))

Case_LDA_ABSY(s) == set_NZ_flags(indexed_LDA_ABS(s, s.Y))

Case_LDA_INDX(s) ==
    LET f       == fetch_program_byte(s)
        wrapped == BitAnd(f.data + f.cpu.X, 255)
        p       == ReadPointer(f.cpu, wrapped)
        r       == bus_read(p.cpu, p.data)
    IN  SubCycles(set_NZ_flags([r.cpu EXCEPT !.A = r.data]), 5)

Case_LDA_INDY(s) ==
    LET f     == fetch_program_byte(s)
        p     == ReadPointer(f.cpu, f.data)
        base  == p.data
        addr  == ToWord(base + p.cpu.Y)
        extra == PageCross(addr, base)
        r     == bus_read(p.cpu, addr)
    IN  SubCycles(set_NZ_flags([r.cpu EXCEPT !.A = r.data]), 5 + extra)

\* variant: the store also updates N and Z from the accumulator
Case_STA_ZP_flags(s) ==
    LET f == fetch_program_byte(s)
    IN  SubCycles(set_NZ_flags(bus_write(f.cpu, f.data, f.cpu.A)), 3)

Case_STA_ZP(s) ==
    LET f == fetch_program_byte(s)
    IN  SubCycles(bus_write(f.cpu, f.data, f.cpu.A), 3)

Case_STA_ZPX(s) ==
    LET f    == fetch_program_byte(s)
        addr == BitAnd(f.data + f.cpu.X, 255)
    IN  SubCycles(bus_write(f.cpu, addr, f.cpu.A), 4)

Case_STA_ABS(s) ==
    LET w == fetch_program_word(s)
    IN  SubCycles(bus_write(w.cpu, w.data, w.cpu.A), 4)

\* variant: the indexed store pays the page-cross cycle the loads pay
Case_STA_ABSX_penalty(s) ==
    LET w == fetch_program_word(s)
    IN  SubCycles(indexed_STA_ABS(s, s.X),
                  5 + PageCross(ToWord(w.data + s.X), w.data))

Case_STA_ABSX(s) == SubCycles(indexed_STA_ABS(s, s.X), 5)

Case_STA_ABSY(s) == SubCycles(indexed_STA_ABS(s, s.Y), 5)

Case_STA_INDX(s) ==
    LET f       == fetch_program_byte(s)
        wrapped == BitAnd(f.data + f.cpu.X, 255)
        p       == ReadPointer(f.cpu, wrapped)
    IN  SubCycles(bus_write(p.cpu, p.data, p.cpu.A), 6)

Case_STA_INDY(s) ==
    LET f    == fetch_program_byte(s)
        p    == ReadPointer(f.cpu, f.data)
        addr == ToWord(p.data + p.cpu.Y)
    IN  SubCycles(bus_write(p.cpu, addr, p.cpu.A), 6)

\* variant: the carry flag is not added in
Case_ADC_IM_no_carry_in(s) ==
    LET f       == fetch_program_byte(s)
        c       == f.cpu
        operand == f.data
        result  == ToWord(c.A + operand)
        nz      == set_NZ_flags(c)
        cf      == cpu_set_flag(C, Bool(result > 255), nz)
        vf      == cpu_set_flag(V,
                     Bool(BitAnd(BitAnd(BitXor(c.A, result),
                                        BitXor(operand, result)), 128) # 0),
                     cf)
    IN  SubCycles([vf EXCEPT !.A = BitAnd(result, 255)], 2)

\* variant: a decimal adjustment of the low digit when D is set
Case_ADC_IM_decimal(s) ==
    LET f       == fetch_program_byte(s)
        c       == f.cpu
        operand == f.data
        carry   == cpu_read_flag(C, c)
        adjust  == IF /\ cpu_read_flag(D, c) = 1
                      /\ (c.A % 16) + (operand % 16) + carry > 9
                   THEN 6 ELSE 0
        result  == ToWord(c.A + operand + carry + adjust)
        nz      == set_NZ_flags(c)
        cf      == cpu_set_flag(C, Bool(result > 255), nz)
        vf      == cpu_set_flag(V,
                     Bool(BitAnd(BitAnd(BitXor(c.A, result),
                                        BitXor(operand, result)), 128) # 0),
                     cf)
    IN  SubCycles([vf EXCEPT !.A = BitAnd(result, 255)], 2)

Case_ADC_IM(s) ==
    LET f       == fetch_program_byte(s)
        c       == f.cpu
        operand == f.data
        result  == ToWord(c.A + operand + cpu_read_flag(C, c))
        nz      == set_NZ_flags(c)
        cf      == cpu_set_flag(C, Bool(result > 255), nz)
        vf      == cpu_set_flag(V,
                     Bool(BitAnd(BitAnd(BitXor(c.A, result),
                                        BitXor(operand, result)), 128) # 0),
                     cf)
    IN  SubCycles([vf EXCEPT !.A = BitAnd(result, 255)], 2)

Case_AND_IM(s) ==
    LET f == fetch_program_byte(s)
    IN  SubCycles(set_NZ_flags([f.cpu EXCEPT !.A = BitAnd(@, f.data)]), 2)

\* variant: the result also goes back to the operand's cell
Case_AND_ZP_write_back(s) ==
    LET f == fetch_program_byte(s)
        r == bus_read(f.cpu, BitAnd(f.data, 255))
        c == set_NZ_flags([r.cpu EXCEPT !.A = BitAnd(@, r.data)])
    IN  SubCycles(bus_write(c, BitAnd(f.data, 255), c.A), 3)

Case_AND_ZP(s) ==
    LET f == fetch_program_byte(s)
        r == bus_read(f.cpu, BitAnd(f.data, 255))
    IN  SubCycles(set_NZ_flags([r.cpu EXCEPT !.A = BitAnd(@, r.data)]), 3)

Case_AND_ZPX(s) ==
    LET f    == fetch_program_byte(s)
        addr == ToByte(f.data + f.cpu.X)
        r    == bus_read(f.cpu, BitAnd(addr, 255))
    IN  SubCycles(set_NZ_flags([r.cpu EXCEPT !.A = BitAnd(@, r.data)]), 4)

Case_AND_ABS(s) ==
    LET w == fetch_program_word(s)
        r == bus_read(w.cpu, w.data)
    IN  SubCycles(set_NZ_flags([r.cpu EXCEPT !.A = BitAnd(@, r.data)]), 4)

Case_AND_ABSX(s) == set_NZ_flags(indexed_AND_ABS(s, s.X))

Case_AND_ABSY(s) == set_NZ_flags(indexed_AND_ABS(s, s.Y))

Case_AND_INDX(s) ==
    LET f       == fetch_program_byte(s)
        wrapped == BitAnd(f.data + f.cpu.X, 255)
        p       == ReadPointer(f.cpu, wrapped)
        r       == bus_read(p.cpu, p.data)
    IN  SubCycles(set_NZ_flags([r.cpu EXCEPT !.A = BitAnd(@, r.data)]), 6)

Case_AND_INDY(s) ==
    LET f     == fetch_program_byte(s)
        p     == ReadPointer(f.cpu, f.data)
        base  == p.data
        addr  == ToWord(base + p.cpu.Y)
        extra == PageCross(addr, base)
        r     == bus_read(p.cpu, addr)
    IN  SubCycles(set_NZ_flags([r.cpu EXCEPT !.A = BitAnd(@, r.data)]),
                  5 + extra)

\* the Z, N, C updates shared by the memory forms of ASL
ASL_mem_flags(s, shifted_value) ==
    LET zf == cpu_set_flag(Z, Bool(shifted_value = 0), s)
        nf == cpu_set_flag(N, BitAnd(BitAnd(shifted_value, 255) \div 128, 1), zf)
    IN  cpu_set_flag(C, Bool(shifted_value > 255), nf)

\* variant: a rotate, the carry flag enters bit 0
Case_ASL_ACC_rotate(s) ==
    LET shifted_value == ToWord(s.A * 2 + cpu_read_flag(C, s))
        nz == set_NZ_flags([s EXCEPT !.A = BitAnd(shifted_value, 255)])
    IN  SubCycles(cpu_set_flag(C, Bool(shifted_value > 255), nz), 2)

Case_ASL_ACC(s) ==
    LET shifted_value == ToWord(s.A * 2)
        nz == set_NZ_flags([s EXCEPT !.A = BitAnd(shifted_value, 255)])
    IN  SubCycles(cpu_set_flag(C, Bool(shifted_value > 255), nz), 2)

Case_ASL_ZP(s) ==
    LET f == fetch_program_byte(s)
        r == bus_read(f.cpu, BitAnd(f.data, 255))
        shifted_value == ToWord(r.data * 2)
        w == bus_write(r.cpu, f.data, BitAnd(shifted_value, 255))
    IN  SubCycles(ASL_mem_flags(w, shifted_value), 5)

Case_ASL_ZPX(s) ==
    LET f == fetch_program_byte(s)
        r == bus_read(f.cpu, BitAnd(f.data, 255))
        shifted_value == ToWord(r.data * 2)
        w == bus_write(r.cpu, f.data, BitAnd(shifted_value, 255))
    IN  SubCycles(ASL_mem_flags(w, shifted_value), 6)

Case_ASL_ABS(s) ==
    LET o == fetch_program_word(s)
        r == bus_read(o.cpu, o.data)
        shifted_value == ToWord(r.data * 2)
        w == bus_write(r.cpu, o.data, BitAnd(shifted_value, 255))
    IN  SubCycles(ASL_mem_flags(w, shifted_value), 6)

Case_ASL_ABSX(s) ==
    LET o    == fetch_program_word(s)
        addr == ToWord(o.data + o.cpu.X)
        r    == bus_read(o.cpu, addr)
        shifted_value == ToWord(r.data * 2)
        w    == bus_write(r.cpu, addr, BitAnd(shifted_value, 255))
    IN  SubCycles(ASL_mem_flags(w, shifted_value), 7)

\* variant: Z from the memory operand alone
BIT_flags_operand_only(s, value) ==
    LET zf == cpu_set_flag(Z, Bool(value = 0), s)
        nf == cpu_set_flag(N, read_bit(value, 7), zf)
    IN  cpu_set_flag(V, read_bit(value, 6), nf)

\* the Z, N, V updates shared by the two forms of BIT
BIT_flags(s, value) ==
    LET zf == cpu_set_flag(Z, Bool(BitAnd(s.A, value) = 0), s)
        nf == cpu_set_flag(N, read_bit(value, 7), zf)
    IN  cpu_set_flag(V, read_bit(value, 6), nf)

Case_BIT_ZP(s) ==
    LET f == fetch_program_byte(s)
        r == bus_read(f.cpu, BitAnd(f.data, 255))
    IN  SubCycles(BIT_flags(r.cpu, r.data), 3)

Case_BIT_ABS(s) ==
    LET o == fetch_program_word(s)
        r == bus_read(o.cpu, o.data)
    IN  SubCycles(BIT_flags(r.cpu, r.data), 4)

Case_BCC_REL(s) == branch(s, cpu_read_flag(C, s), 0)

Case_BCS_REL(s) == branch(s, cpu_read_flag(C, s), 1)

\* The cases from BNE to BVS end without a break: each runs on into the
\* next one, and the last into the BIT zero-page case.
Case_BVS_REL(s) == Case_BIT_ZP(branch(s, cpu_read_flag(V, s), 1))

Case_BVC_REL(s) == Case_BVS_REL(branch(s, cpu_read_flag(V, s), 0))

Case_BMI_REL(s) == Case_BVC_REL(branch(s, cpu_read_flag(N, s), 1))

Case_BPL_REL(s) == Case_BMI_REL(branch(s, cpu_read_flag(N, s), 0))

Case_BEQ_REL(s) == Case_BPL_REL(branch(s, cpu_read_flag(Z, s), 1))

Case_BNE_REL(s) == Case_BEQ_REL(branch(s, cpu_read_flag(Z, s), 0))

\* variant: the status byte is pushed as it stands, B is not raised for it
Case_BRK_IMP_plain_status(s) ==
    LET stack_PC    == ToWord(s.PC + 2)
        stack_PC_lo == BitAnd(stack_PC, 255)
        stack_PC_hi == BitAnd(stack_PC \div 256, 255)
        p1 == stack_push(stack_PC_hi, s)
        p2 == stack_push(stack_PC_lo, p1)
        fi == cpu_set_flag(I, 1, p2)
        p3 == stack_push(fi.flags, fi)
        cb == cpu_set_flag(B, 0, p3)
        lo == bus_read(cb, 65534)
        hi == bus_read(lo.cpu, 65535)
        addr == BitOr(lo.data, hi.data * 256)
    IN  SubCycles([hi.cpu EXCEPT !.PC = addr], 7)

\* variant: the pushed word is the address after one padding byte
Case_BRK_IMP_one_padding(s) ==
    LET stack_PC    == ToWord(s.PC + 1)
        stack_PC_lo == BitAnd(stack_PC, 255)
        stack_PC_hi == BitAnd(stack_PC \div 256, 255)
        p1 == stack_push(stack_PC_hi, s)
        p2 == stack_push(stack_PC_lo, p1)
        fi == cpu_set_flag(I, 1, p2)
        fb == cpu_set_flag(B, 1, fi)
        p3 == stack_push(fb.flags, fb)
        cb == cpu_set_flag(B, 0, p3)
        lo == bus_read(cb, 65534)
        hi == bus_read(lo.cpu, 65535)
        addr == BitOr(lo.data, hi.data * 256)
    IN  SubCycles([hi.cpu EXCEPT !.PC = addr], 7)

\* variant: the B flag stays set in the live status register
Case_BRK_IMP_keeps_B(s) ==
    LET stack_PC    == ToWord(s.PC + 2)
        stack_PC_lo == BitAnd(stack_PC, 255)
        stack_PC_hi == BitAnd(stack_PC \div 256, 255)
        p1 == stack_push(stack_PC_hi, s)
        p2 == stack_push(stack_PC_lo, p1)
        fi == cpu_set_flag(I, 1, p2)
        fb == cpu_set_flag(B, 1, fi)
        p3 == stack_push(fb.flags, fb)
        lo == bus_read(p3, 65534)
        hi == bus_read(lo.cpu, 65535)
        addr == BitOr(lo.data, hi.data * 256)
    IN  SubCycles([hi.cpu EXCEPT !.PC = addr], 7)

Case_BRK_IMP(s) ==
    LET stack_PC    == ToWord(s.PC + 2)
        stack_PC_lo == BitAnd(stack_PC, 255)
        stack_PC_hi == BitAnd(stack_PC \div 256, 255)
        p1 == stack_push(stack_PC_hi, s)
        p2 == stack_push(stack_PC_lo, p1)
        fi == cpu_set_flag(I, 1, p2)
        fb == cpu_set_flag(B, 1, fi)
        p3 == stack_push(fb.flags, fb)
        cb == cpu_set_flag(B, 0, p3)
        lo == bus_read(cb, 65534)
        hi == bus_read(lo.cpu, 65535)
        addr == BitOr(lo.data, hi.data * 256)
    IN  SubCycles([hi.cpu EXCEPT !.PC = addr], 7)

Case_default(s) == SubCycles(s, 1)

\* the switch of cpu_execute
Dispatch(opcode, s) ==
    CASE opcode = OPC_LDA_IM   -> Case_LDA_IM(s)
      [] opcode = OPC_LDA_ZP   -> Case_LDA_ZP(s)
      [] opcode = OPC_LDA_ZPX  -> Case_LDA_ZPX(s)
      [] opcode = OPC_LDA_ABS  -> Case_LDA_ABS(s)
      [] opcode = OPC_LDA_ABSX -> Case_LDA_ABSX(s)
      [] opcode = OPC_LDA_ABSY -> Case_LDA_ABSY(s)
      [] opcode = OPC_LDA_INDX -> Case_LDA_INDX(s)
      [] opcode = OPC_LDA_INDY -> Case_LDA_INDY(s)
      [] opcode = OPC_STA_ZP   -> Case_STA_ZP(s)
      [] opcode = OPC_STA_ZPX  -> Case_STA_ZPX(s)
      [] opcode = OPC_STA_ABS  -> Case_STA_ABS(s)
      [] opcode = OPC_STA_ABSX -> Case_STA_ABSX(s)
      [] opcode = OPC_STA_ABSY -> Case_STA_ABSY(s)
      [] opcode = OPC_STA_INDX -> Case_STA_INDX(s)
      [] opcode = OPC_STA_INDY -> Case_STA_INDY(s)
      [] opcode = OPC_ADC_IM   -> Case_ADC_IM(s)
      [] opcode = OPC_AND_IM   -> Case_AND_IM(s)
      [] opcode = OPC_AND_ZP   -> Case_AND_ZP(s)
      [] opcode = OPC_AND_ZPX  -> Case_AND_ZPX(s)
      [] opcode = OPC_AND_ABS  -> Case_AND_ABS(s)
      [] opcode = OPC_AND_ABSX -> Case_AND_ABSX(s)
      [] opcode = OPC_AND_ABSY -> Case_AND_ABSY(s)
      [] opcode = OPC_AND_INDX -> Case_AND_INDX(s)
      [] opcode = OPC_AND_INDY -> Case_AND_INDY(s)
      [] opcode = OPC_ASL_ACC  -> Case_ASL_ACC(s)
      [] opcode = OPC_ASL_ZP   -> Case_ASL_ZP(s)
      [] opcode = OPC_ASL_ZPX  -> Case_ASL_ZPX(s)
      [] opcode = OPC_ASL_ABS  -> Case_ASL_ABS(s)
      [] opcode = OPC_ASL_ABSX -> Case_ASL_ABSX(s)
      [] opcode = OPC_BCC_REL  -> Case_BCC_REL(s)
      [] opcode = OPC_BCS_REL  -> Case_BCS_REL(s)
      [] opcode = OPC_BNE_REL  -> Case_BNE_REL(s)
      [] opcode = OPC_BEQ_REL  -> Case_BEQ_REL(s)
      [] opcode = OPC_BPL_REL  -> Case_BPL_REL(s)
      [] opcode = OPC_BMI_REL  -> Case_BMI_REL(s)
      [] opcode = OPC_BVC_REL  -> Case_BVC_REL(s)
      [] opcode = OPC_BVS_REL  -> Case_BVS_REL(s)
      [] opcode = OPC_BIT_ZP   -> Case_BIT_ZP(s)
      [] opcode = OPC_BIT_ABS  -> Case_BIT_ABS(s)
      [] opcode = OPC_BRK_IMP  -> Case_BRK_IMP(s)
      [] OTHER                 -> Case_default(s)

\* one pass of the body of the while loop: fetch an opcode and run its case
ExecuteOne(s) ==
    LET f == fetch_program_byte(s)
    IN  Dispatch(f.data, f.cpu)


(***************************************************************************)
(* The machine as a record, and its installation as the next state.        *)
(***************************************************************************)
Cpu ==
    [PC |-> PC, SP |-> SP, A |-> A, X |-> X, Y |-> Y, flags |-> flags,
     mem |-> mem, cycles |-> cycles, log |-> <<>>]

Install(s) ==
    /\ PC' = s.PC
    /\ SP' = s.SP
    /\ A' = s.A
    /\ X' = s.X
    /\ Y' = s.Y
    /\ flags' = s.flags
    /\ mem' = s.mem
    /\ cycles' = s.cycles
    /\ log' = s.log

\* the CPU registers alone
Regs(s) ==
    [PC |-> s.PC, SP |-> s.SP, A |-> s.A, X |-> s.X, Y |-> s.Y,
     flags |-> s.flags]

\* the CPU registers and the memory image
Machine(s) ==
    [PC |-> s.PC, SP |-> s.SP, A |-> s.A, X |-> s.X, Y |-> s.Y,
     flags |-> s.flags, mem |-> s.mem]

\* static storage: the CPU struct and the memory array start zeroed
ZeroCpu ==
    [PC |-> 0, SP |-> 0, A |-> 0, X |-> 0, Y |-> 0, flags |-> 0,
     mem |-> [a \in {} |-> 0], cycles |-> 0, log |-> <<>>]

(***************************************************************************)
(* Bounds and input sets of the system specification.                      *)
(***************************************************************************)
MaxCalls == 4

\* where the embedder writes a program: the reset PC and the byte after it
ProgAddrs == {511, 512}
\* LDA #imm, BCC, and an operand byte (-2 as a branch offset)
ProgBytes == {OPC_LDA_IM, OPC_BCC_REL, 254}
Budgets   == {0, 1, 2, 4}
FlagArgs  == {C, I, U}

(***************************************************************************)
(* Spec: an embedder that resets the CPU, scripts flags, writes memory      *)
(* through the bus and calls cpu_execute; cpu_execute is followed one       *)
(* pass of its loop at a time.                                              *)
(***************************************************************************)
Init ==
    /\ PC = 0 /\ SP = 0 /\ A = 0 /\ X = 0 /\ Y = 0 /\ flags = 0
    /\ mem = [a \in {} |-> 0]
    /\ cycles = 0
    /\ mode = "idle"
    /\ log = <<>>
    /\ op = "init"
    /\ arg = <<>>
    /\ calls = 0
    /\ trail = <<>>
    /\ start = Machine(ZeroCpu)

\* the embedder initialises the CPU with cpu_reset before anything else
Booted == op # "init"

Reset ==
    /\ mode = "idle"
    /\ calls < MaxCalls
    /\ Install(cpu_reset(Cpu))
    /\ op' = "reset"
    /\ arg' = <<>>
    /\ calls' = calls + 1
    /\ UNCHANGED <<mode, trail, start>>

SetFlag ==
    /\ mode = "idle"
    /\ Booted
    /\ calls < MaxCalls
    /\ \E flag \in FlagArgs, value \in {0, 1} :
          /\ Install(cpu_set_flag(flag, value, Cpu))
          /\ op' = "set_flag"
          /\ arg' = <<flag, value>>
    /\ calls' = calls + 1
    /\ UNCHANGED <<mode, trail, start>>

ToggleFlag ==
    /\ mode = "idle"
    /\ Booted
    /\ calls < MaxCalls
    /\ \E flag \in FlagArgs :
          /\ Install(cpu_toggle_flag(flag, Cpu))
          /\ op' = "toggle_flag"
          /\ arg' = <<flag>>
    /\ calls' = calls + 1
    /\ UNCHANGED <<mode, trail, start>>

BusWrite ==
    /\ mode = "idle"
    /\ Booted
    /\ calls < MaxCalls
    /\ \E addr \in ProgAddrs, data \in ProgBytes :
          /\ Install(bus_write(Cpu, addr, data))
          /\ op' = "bus_write"
          /\ arg' = <<addr, data>>
    /\ calls' = calls + 1
    /\ UNCHANGED <<mode, trail, start>>

\* cpu_execute is entered: the budget is the by-value parameter
Execute ==
    /\ mode = "idle"
    /\ Booted
    /\ calls < MaxCalls
    /\ \E budget \in Budgets :
          /\ cycles' = budget
          /\ arg' = <<budget>>
    /\ mode' = "run"
    /\ op' = "execute"
    /\ log' = <<>>
    /\ calls' = calls + 1
    /\ UNCHANGED <<PC, SP, A, X, Y, flags, mem, trail, start>>

\* while (cycles > 0): one opcode is fetched and its case run
Instr ==
    /\ mode = "run"
    /\ cycles > 0
    /\ LET r == ExecuteOne(Cpu)
       IN  /\ Install(r)
           /\ arg' = [opcode |-> bus_value(mem, PC), pc |-> PC,
                      budget |-> cycles,
                      cost |-> ToByte(cycles + 256 - r.cycles)]
    /\ op' = "instr"
    /\ UNCHANGED <<mode, calls, trail, start>>

\* the loop test fails: cpu_execute returns
Return ==
    /\ mode = "run"
    /\ cycles = 0
    /\ mode' = "idle"
    /\ op' = "return"
    /\ arg' = <<>>
    /\ log' = <<>>
    /\ UNCHANGED <<PC, SP, A, X, Y, flags, mem, cycles, calls, trail, start>>

Next ==
    \/ Reset
    \/ SetFlag
    \/ ToggleFlag
    \/ BusWrite
    \/ Execute
    \/ Instr
    \/ Return

Spec == Init /\ [][Next]_vars

\* cpu_execute is sequential code: once entered, its loop keeps running.
\* InstrFair is WF_vars(Instr) with ENABLED <<Instr>>_vars written out as
\* the loop test that enables it.
InstrFair == []<>(~(mode = "run" /\ cycles > 0)) \/ []<><<Instr>>_vars

LiveSpec == Spec /\ WF_vars(Return) /\ InstrFair


(***************************************************************************)
(* Claims about the dispatch loop and the status register (Spec, LiveSpec) *)
(***************************************************************************)

\* C1: when an instruction costs more than the budget that remains, it
\* completes and the loop then ends: the budget left after it counts as
\* zero at the next loop test, so no further opcode is fetched.
C1_OvershootEndsLoop ==
    (op = "instr" /\ arg.cost > arg.budget) => (mode = "run" /\ cycles = 0)

\* C2: every call of cpu_execute eventually returns to the embedder.
C2_ExecuteReturns == (mode = "run") ~> (mode = "idle")

\* C3: within one cpu_execute call the budget never increases from one
\* instruction to the next.
C3_BudgetNeverIncreases == (op = "instr") => (cycles <= arg.budget)

\* C4: in every state reachable from cpu_reset by cpu_set_flag,
\* cpu_toggle_flag and cpu_execute calls, bit 5 (U) of P is 1.
C4_UnusedBitAlwaysSet == Booted => (BitOf(flags, U) = 1)


(***************************************************************************)
(* SpecReset: cpu_reset and bus_reset applied to an arbitrary prior state. *)
(* The prior registers and memory image are drawn by the initial           *)
(* predicate and kept in start.                                            *)
(***************************************************************************)
MaxResets == 2

PriorPC    == {0, 256, 65535}
PriorSP    == {0, 253}
PriorA     == {0, 255}
PriorX     == {0, 1}
PriorY     == {0, 128}
PriorFlags == {0, 36, 255}
PriorMem   ==
    { [a \in {} |-> 0],
      (0 :> 255) @@ (255 :> 1) @@ (256 :> 171) @@ (511 :> 169),
      (768 :> 222) @@ (65534 :> 52) @@ (65535 :> 18) }

InitReset ==
    /\ PC \in PriorPC /\ SP \in PriorSP /\ A \in PriorA
    /\ X \in PriorX /\ Y \in PriorY /\ flags \in PriorFlags
    /\ mem \in PriorMem
    /\ cycles = 0
    /\ mode = "idle"
    /\ log = <<>>
    /\ op = "init"
    /\ arg = <<>>
    /\ calls = 0
    /\ trail = <<>>
    /\ start = Machine(Cpu)

CpuReset ==
    /\ calls < MaxResets
    /\ Install(cpu_reset(Cpu))
    /\ op' = "reset"
    /\ calls' = calls + 1
    /\ UNCHANGED <<mode, arg, trail, start>>

BusReset ==
    /\ calls < MaxResets
    /\ mem' = bus_reset(mem)
    /\ op' = "bus_reset"
    /\ calls' = calls + 1
    /\ UNCHANGED <<PC, SP, A, X, Y, flags, cycles, mode, log, arg, trail, start>>

NextReset ==
    \/ CpuReset
    \/ BusReset

SpecReset == InitReset /\ [][NextReset]_vars

\* C5 as stated: after cpu_reset PC = 0x0100, SP = 0xFD, A = X = Y = 0 and
\* P = 0b00100100.
C5_ResetRegistersAsStated ==
    (op = "reset") =>
        (PC = 256 /\ SP = 253 /\ A = 0 /\ X = 0 /\ Y = 0 /\ flags = 36)

\* C5 (amended): after cpu_reset, from any prior CPU state, PC = 0x01FF,
\* SP = 0xFF, A = X = Y = 0 and P = 0b00100100 (only I and U set).
C5_ResetRegisters ==
    (op = "reset") =>
        (PC = 511 /\ SP = 255 /\ A = 0 /\ X = 0 /\ Y = 0 /\ flags = 36)

\* cpu_reset has run on a prior state in which every register differed from
\* its post-reset value
C5_Witness ==
    /\ op = "reset"
    /\ calls = 1
    /\ start.PC = 65535 /\ start.SP = 0 /\ start.A = 255
    /\ start.X = 1 /\ start.Y = 128 /\ start.flags = 255

\* C6: after cpu_reset or bus_reset, from any prior memory contents, every
\* one of the 65536 memory bytes reads 0x00 (so a second reset changes
\* nothing in memory).
C6_ResetZeroesMemory ==
    (op \in {"reset", "bus_reset"}) =>
        \A a \in 0..(MEM_SIZE - 1) : bus_value(mem, a) = 0

\* a reset has run on a memory image with non-zero bytes, the last cell of
\* the array among them
C6_Witness ==
    /\ op \in {"reset", "bus_reset"}
    /\ bus_value(start.mem, 65535) # 0
    /\ bus_value(start.mem, 768) # 0


(***************************************************************************)
(* SpecStack: stack_push, stack_pop and BRK (which pushes three bytes)     *)
(* called in any order on a freshly reset machine whose SP the harness has *)
(* set.  trail lists the pushes and pops made, with the byte each pushed   *)
(* or returned.                                                            *)
(***************************************************************************)
MaxStackOps == 5

StackStarts == {0, 1, 2, 254, 255}
StackVals   == {0, 17, 171}
PRG_START   == 512

InitStack ==
    /\ PC = PRG_START /\ SP \in StackStarts /\ A = 0 /\ X = 0 /\ Y = 0
    /\ flags = 36
    /\ mem = [a \in {} |-> 0]
    /\ cycles = 0
    /\ mode = "idle"
    /\ log = <<>>
    /\ op = "init"
    /\ arg = <<>>
    /\ calls = 0
    /\ trail = <<>>
    /\ start = Machine(Cpu)

Push ==
    /\ Len(trail) < MaxStackOps
    /\ \E value \in StackVals :
          /\ Install(stack_push(value, Cpu))
          /\ arg' = <<value>>
          /\ trail' = Append(trail, <<"push", value>>)
    /\ op' = "push"
    /\ UNCHANGED <<mode, calls, start>>

Pop ==
    /\ Len(trail) < MaxStackOps
    /\ LET r == stack_pop(Cpu)
       IN  /\ Install(r.cpu)
           /\ arg' = <<r.data>>
           /\ trail' = Append(trail, <<"pop", r.data>>)
    /\ op' = "pop"
    /\ UNCHANGED <<mode, calls, start>>

\* cpu_execute(7) with a BRK opcode at PC: the one instruction uses up the
\* budget; its first three bus accesses are its three stack_push calls
Brk ==
    /\ Len(trail) + 3 <= MaxStackOps
    /\ bus_value(mem, PC) = OPC_BRK_IMP
    /\ LET r == ExecuteOne([Cpu EXCEPT !.cycles = 7])
       IN  /\ Install(r)
           /\ r.cycles = 0
           /\ trail' = trail \o [i \in 1..3 |-> <<"push", r.log[i + 1][3]>>]
    /\ op' = "brk"
    /\ arg' = <<>>
    /\ UNCHANGED <<mode, calls, start>>

NextStack ==
    \/ Push
    \/ Pop
    \/ Brk

SpecStack == InitStack /\ [][NextStack]_vars

\* the number of calls of the given kind in a trail
RECURSIVE Count(_, _)
Count(tr, kind) ==
    IF tr = <<>> THEN 0
    ELSE (IF Head(tr)[1] = kind THEN 1 ELSE 0) + Count(Tail(tr), kind)

\* the bytes pushed and not yet popped after a trail, oldest first
RECURSIVE Pending(_)
Pending(tr) ==
    IF tr = <<>> THEN <<>>
    ELSE LET before == Pending(SubSeq(tr, 1, Len(tr) - 1))
             last   == tr[Len(tr)]
         IN  IF last[1] = "push" THEN Append(before, last[2])
             ELSE IF before = <<>> THEN <<>>
             ELSE SubSeq(before, 1, Len(before) - 1)

\* the bus accesses that stack_push and stack_pop made in the last operation
StackAccesses ==
    IF op \in {"push", "pop"} THEN log
    ELSE IF op = "brk" THEN SubSeq(log, 2, 4)
    ELSE <<>>

\* C7: every memory access made by stack_push and stack_pop, those of BRK
\* included, is at an address in 0x0100..0x01FF, also when SP wraps.
C7_StackInPageOne ==
    \A i \in DOMAIN StackAccesses : StackAccesses[i][2] \in 256..511

\* a pop at SP = 0xFF has wrapped SP to 0x00 and read 0x0100, and the push
\* after it, at SP = 0x00, has written 0x0100 and wrapped SP to 0xFF
C7_Witness ==
    /\ start.SP = 255
    /\ Len(trail) = 2 /\ trail[1][1] = "pop" /\ trail[2][1] = "push"
    /\ op = "push" /\ SP = 255 /\ log = <<<<"W", 256, arg[1]>>>>

\* BRK has made its three pushes across the wrap of SP
C7_WitnessBrk ==
    /\ op = "brk" /\ start.SP = 1 /\ SP = 254
    /\ log[2][2] = 257 /\ log[3][2] = 256 /\ log[4][2] = 511

\* C8: after any interleaving of pushes and pops with as many pushes as
\* pops, SP equals the SP the sequence started with.
C8_BalancedRestoresSP ==
    (Count(trail, "push") = Count(trail, "pop")) => (SP = start.SP)

\* a balanced sequence of at least two pushes and two pops has run, during
\* which SP wrapped around
C8_Witness ==
    /\ Len(trail) >= 4
    /\ Count(trail, "push") = Count(trail, "pop")
    /\ start.SP \in {0, 255}
    /\ trail[1][1] # trail[2][1]

\* C9: the stack is last-in-first-out: a pop made while pushed bytes are
\* pending returns the most recently pushed byte not yet popped; so n
\* pushes of v1..vn followed by n pops return vn..v1.
C9_LastInFirstOut ==
    \A k \in 1..Len(trail) :
        LET pending == Pending(SubSeq(trail, 1, k - 1))
        IN  (trail[k][1] = "pop" /\ pending # <<>>) =>
                trail[k][2] = pending[Len(pending)]

\* a word was pushed high byte then low byte, and two pops returned the low
\* byte and then the high byte
C9_Witness ==
    /\ Len(trail) = 4
    /\ trail = << <<"push", 171>>, <<"push", 17>>, <<"pop", 17>>, <<"pop", 171>> >>


(***************************************************************************)
(* SpecBus: bus_write and bus_read called by the embedder in any order on  *)
(* an arbitrary memory image.  trail lists the writes made.                *)
(***************************************************************************)
MaxBusOps == 3

BusAddrs == {0, 255, 32768, 65535}
BusVals  == {0, 1, 255}

InitBus ==
    /\ PC = 0 /\ SP = 0 /\ A = 0 /\ X = 0 /\ Y = 0 /\ flags = 0
    /\ mem \in PriorMem
    /\ cycles = 0
    /\ mode = "idle"
    /\ log = <<>>
    /\ op = "init"
    /\ arg = <<>>
    /\ calls = 0
    /\ trail = <<>>
    /\ start = Machine(Cpu)

EmbedderWrite ==
    /\ Len(trail) < MaxBusOps
    /\ \E addr \in BusAddrs, data \in BusVals :
          /\ Install(bus_write(Cpu, addr, data))
          /\ arg' = <<addr, data>>
          /\ trail' = Append(trail, <<addr, data>>)
    /\ op' = "bus_write"
    /\ UNCHANGED <<mode, calls, start>>

EmbedderRead ==
    /\ \E addr \in BusAddrs :
          LET r == bus_read(Cpu, addr)
          IN  /\ Install(r.cpu)
              /\ arg' = <<addr, r.data>>
    /\ op' = "bus_read"
    /\ UNCHANGED <<mode, calls, trail, start>>

NextBus ==
    \/ EmbedderWrite
    \/ EmbedderRead

SpecBus == InitBus /\ [][NextBus]_vars

\* the byte most recently written to addr in a trail of writes, or the byte
\* the memory image started with when addr was never written
RECURSIVE LastWritten(_, _)
LastWritten(tr, addr) ==
    IF tr = <<>> THEN MemCell(start.mem, addr)
    ELSE IF tr[Len(tr)][1] = addr THEN tr[Len(tr)][2]
    ELSE LastWritten(SubSeq(tr, 1, Len(tr) - 1), addr)

\* C10: after bus_write(a, v) every bus_read(a) returns v until the next
\* write to a; writes to other addresses do not change what it returns.
C10_ReadReturnsLastWrite ==
    /\ (op = "bus_read") => (arg[2] = LastWritten(trail, arg[1]))
    /\ \A a \in BusAddrs : bus_value(mem, a) = LastWritten(trail, a)

\* 0xFFFF was written, then another address was written, and a read of
\* 0xFFFF has returned the byte written to it
C10_Witness ==
    /\ op = "bus_read"
    /\ Len(trail) >= 2
    /\ trail[1] = <<65535, 255>>
    /\ trail[2][1] # 65535
    /\ arg = <<65535, 255>>


(***************************************************************************)
(* One instruction at a time.  As in the repository's tests, the machine   *)
(* is set up with a program at PRG_START, registers and a memory image,    *)
(* and cpu_execute makes one pass of its loop.  start keeps the machine    *)
(* the instruction found; arg records the opcode, where it was fetched,    *)
(* the budget before it and the cycles it took off the budget.             *)
(***************************************************************************)

\* the opcode byte and operand bytes bus_store puts at PRG_START
Program(image, opcode, b1, b2) ==
    bus_store(bus_store(bus_store(image, PRG_START, opcode),
                        PRG_START + 1, b1),
              PRG_START + 2, b2)

\* a memory image with pointers in the zero page (one of them straddling
\* 0xFF / 0x00), data either side of the 0x03FF / 0x0400 page boundary and
\* at both ends of the address space, and different bytes at the page 1
\* addresses 0x0100.. an unwrapped zero-page access would reach
DataImage ==
    (0 :> 3) @@ (1 :> 1) @@ (2 :> 127) @@ (4 :> 34) @@ (15 :> 240)
    @@ (16 :> 255) @@ (17 :> 3) @@ (18 :> 4) @@ (253 :> 2) @@ (254 :> 128)
    @@ (255 :> 254)
    @@ (256 :> 5) @@ (257 :> 119) @@ (258 :> 136) @@ (259 :> 51)
    @@ (784 :> 18) @@ (786 :> 129) @@ (1022 :> 17) @@ (1023 :> 128)
    @@ (1024 :> 127) @@ (1025 :> 1) @@ (1027 :> 192) @@ (1039 :> 15)
    @@ (1277 :> 170) @@ (1278 :> 85) @@ (1534 :> 102)
    @@ (32513 :> 68) @@ (65152 :> 144) @@ (65153 :> 9) @@ (65296 :> 200)
    @@ (65407 :> 240) @@ (65534 :> 52) @@ (65535 :> 129)

Images == { DataImage, [a \in {} |-> 0] }

OperandLo == {0, 16, 254, 255}
OperandHi == {3, 255}
IndexX    == {0, 1, 2}
IndexY    == {0, 1, 255}
AccVals   == {0, 85}
OneBudget == {7}

\* the harness state before cpu_execute: test_reset, then registers, flags
\* and memory set by hand
InitOne(opcodes, lows, highs, xs, ys, accs, flagvals, images) ==
    /\ PC = PRG_START /\ SP = 255
    /\ A \in accs /\ X \in xs /\ Y \in ys
    /\ flags \in flagvals
    /\ \E opcode \in opcodes, b1 \in lows, b2 \in highs, image \in images :
          mem = Program(image, opcode, b1, b2)
    /\ cycles \in OneBudget
    /\ mode = "run"
    /\ log = <<>>
    /\ op = "init"
    /\ arg = <<>>
    /\ calls = 0
    /\ trail = <<>>
    /\ start = Machine(Cpu)

\* the first pass of the loop of cpu_execute
ExecuteOnce ==
    /\ op = "init"
    /\ cycles > 0
    /\ LET r == ExecuteOne(Cpu)
       IN  /\ Install(r)
           /\ arg' = [opcode |-> bus_value(mem, PC), pc |-> PC,
                      budget |-> cycles,
                      cost |-> ToByte(cycles + 256 - r.cycles)]
    /\ op' = "instr"
    /\ calls' = calls + 1
    /\ UNCHANGED <<mode, trail, start>>

(***************************************************************************)
(* What the instruction set reference says an addressing mode selects,     *)
(* read off the machine the instruction found.                             *)
(***************************************************************************)
Operand1(st) == bus_value(st.mem, ToWord(st.PC + 1))
Operand2(st) == bus_value(st.mem, ToWord(st.PC + 2))

\* the 16 bit pointer held at zero-page address p, high byte at (p+1) mod 256
PointerAt(st, p) ==
    bus_value(st.mem, p % 256) + 256 * bus_value(st.mem, (p + 1) % 256)

\* the address before indexing, for the modes that add an index to 16 bits
BaseAddr(m, st) ==
    CASE m \in {"ABS", "ABSX", "ABSY"} -> Operand1(st) + 256 * Operand2(st)
      [] m = "INDY" -> PointerAt(st, Operand1(st))
      [] OTHER -> 0

EffAddr(m, st) ==
    CASE m = "ZP"   -> Operand1(st)
      [] m = "ZPX"  -> (Operand1(st) + st.X) % 256
      [] m = "ABS"  -> BaseAddr(m, st)
      [] m = "ABSX" -> (BaseAddr(m, st) + st.X) % 65536
      [] m = "ABSY" -> (BaseAddr(m, st) + st.Y) % 65536
      [] m = "INDX" -> PointerAt(st, (Operand1(st) + st.X) % 256)
      [] m = "INDY" -> (BaseAddr(m, st) + st.Y) % 65536

\* the byte M the mode selects
Selected(m, st) ==
    IF m = "IM" THEN Operand1(st) ELSE bus_value(st.mem, EffAddr(m, st))

\* 1 when indexing moved the address to another page, else 0
Crossed(m, st) ==
    IF m \in {"ABSX", "ABSY", "INDY"}
       /\ EffAddr(m, st) \div 256 # BaseAddr(m, st) \div 256
    THEN 1 ELSE 0

\* the flags an instruction that sets only N and Z must leave alone
KeepsFlags(before, after, kept) ==
    \A f \in kept : BitOf(after, f) = BitOf(before, f)

(***************************************************************************)
(* SpecLDA: one LDA instruction in each of its eight addressing modes.     *)
(***************************************************************************)
LdaMode ==
    (OPC_LDA_IM :> "IM") @@ (OPC_LDA_ZP :> "ZP") @@ (OPC_LDA_ZPX :> "ZPX")
    @@ (OPC_LDA_ABS :> "ABS") @@ (OPC_LDA_ABSX :> "ABSX")
    @@ (OPC_LDA_ABSY :> "ABSY") @@ (OPC_LDA_INDX :> "INDX")
    @@ (OPC_LDA_INDY :> "INDY")

InitLDA ==
    InitOne(DOMAIN LdaMode, OperandLo, OperandHi, IndexX, IndexY, AccVals,
            PriorFlags, Images)

SpecLDA == InitLDA /\ [][ExecuteOnce]_vars

\* C11: one LDA in any of its eight addressing modes sets A to the byte M
\* the mode selects, sets Z = (M = 0) and N = bit 7 of M, and leaves the
\* flags C, I, D, B and V as they were (U, which every flag write forces
\* to 1, is set).
C11_LdaLoadsSelectedByte ==
    (op = "instr") =>
        LET M == Selected(LdaMode[arg.opcode], start)
        IN  /\ A = M
            /\ BitOf(flags, Z) = Bool(M = 0)
            /\ BitOf(flags, N) = M \div 128
            /\ KeepsFlags(start.flags, flags, {C, I, D, B, V})
            /\ BitOf(flags, U) = 1

\* LDA (zp),Y has crossed from 0x03FF to 0x0400 and loaded the positive
\* byte there over a status register that had N, Z and all others set
C11_Witness ==
    /\ op = "instr"
    /\ arg.opcode = OPC_LDA_INDY
    /\ EffAddr("INDY", start) = 1024
    /\ start.flags = 255
    /\ A = 127
    /\ flags = 125

\* the documented base cost of each LDA opcode
LdaBaseCost ==
    (OPC_LDA_IM :> 2) @@ (OPC_LDA_ZP :> 3) @@ (OPC_LDA_ZPX :> 4)
    @@ (OPC_LDA_ABS :> 4) @@ (OPC_LDA_ABSX :> 4) @@ (OPC_LDA_ABSY :> 4)
    @@ (OPC_LDA_INDX :> 6) @@ (OPC_LDA_INDY :> 5)

\* C12: each LDA opcode takes its documented cost off the budget: IM 2,
\* ZP 3, ZPX 4, ABS 4, INDX 6, and ABSX / ABSY 4 and INDY 5 plus 1 exactly
\* when the indexed address lies in another page than the base.
C12_LdaCosts ==
    (op = "instr") =>
        arg.cost = LdaBaseCost[arg.opcode]
                     + Crossed(LdaMode[arg.opcode], start)

(***************************************************************************)
(* SpecSTA: one STA instruction in each of its seven addressing modes.     *)
(***************************************************************************)
StaMode ==
    (OPC_STA_ZP :> "ZP") @@ (OPC_STA_ZPX :> "ZPX") @@ (OPC_STA_ABS :> "ABS")
    @@ (OPC_STA_ABSX :> "ABSX") @@ (OPC_STA_ABSY :> "ABSY")
    @@ (OPC_STA_INDX :> "INDX") @@ (OPC_STA_INDY :> "INDY")

StoreAccs  == {0, 85, 128, 255}
\* no flag, the reset value, every flag, each flag alone
StoreFlags == {0, 36, 255, 1, 2, 4, 8, 16, 32, 64, 128}

InitSTA ==
    InitOne(DOMAIN StaMode, OperandLo, OperandHi, IndexX, IndexY, StoreAccs,
            StoreFlags, Images)

SpecSTA == InitSTA /\ [][ExecuteOnce]_vars

\* the bus writes in an access log
Writes(l) == SelectSeq(l, LAMBDA e : e[1] = "W")

\* C13: one STA in any of its seven addressing modes writes A to the
\* mode's effective address (its only write) and leaves all eight bits of
\* P and the registers A, X, Y and SP unchanged.
C13_StaWritesAndKeepsP ==
    (op = "instr") =>
        LET ea == EffAddr(StaMode[arg.opcode], start)
        IN  /\ Writes(log) = << <<"W", ea, start.A>> >>
            /\ mem = bus_store(start.mem, ea, start.A)
            /\ flags = start.flags
            /\ A = start.A /\ X = start.X /\ Y = start.Y /\ SP = start.SP

\* STA (zp,X) through the pointer straddling 0xFF / 0x00 has replaced the
\* byte at 0x03FE by a negative accumulator while P had only Z set
C13_Witness ==
    /\ op = "instr"
    /\ arg.opcode = OPC_STA_INDX
    /\ Operand1(start) = 254 /\ start.X = 1
    /\ bus_value(start.mem, 1022) = 17
    /\ bus_value(mem, 1022) = 128
    /\ start.A = 128
    /\ flags = 2

\* the documented cost of each STA opcode
StaCost ==
    (OPC_STA_ZP :> 3) @@ (OPC_STA_ZPX :> 4) @@ (OPC_STA_ABS :> 4)
    @@ (OPC_STA_ABSX :> 5) @@ (OPC_STA_ABSY :> 5) @@ (OPC_STA_INDX :> 6)
    @@ (OPC_STA_INDY :> 6)

\* C14: STA costs ZP 3, ZPX 4, ABS 4, ABSX 5, ABSY 5, INDX 6 and INDY 6
\* cycles whether or not base + index crosses a page boundary.
C14_StaCostsNoPenalty ==
    (op = "instr") => (arg.cost = StaCost[arg.opcode])

\* STA abs,X from base 0x03FF with X = 1 has stored at 0x0400 for 5 cycles
C14_Witness ==
    /\ op = "instr"
    /\ arg.opcode = OPC_STA_ABSX
    /\ BaseAddr("ABSX", start) = 1023
    /\ Crossed("ABSX", start) = 1
    /\ EffAddr("ABSX", start) = 1024
    /\ arg.cost = 5

(***************************************************************************)
(* SpecZPX: LDA, STA and AND in zero-page,X mode, for every operand byte   *)
(* and every X.                                                            *)
(***************************************************************************)
ZpxOpcodes == {OPC_LDA_ZPX, OPC_STA_ZPX, OPC_AND_ZPX}

InitZPX ==
    InitOne(ZpxOpcodes, Byte, {3}, Byte, {1}, {85}, {36}, {DataImage})

SpecZPX == InitZPX /\ [][ExecuteOnce]_vars

\* the bus accesses an instruction makes after fetching its opcode and one
\* operand byte
DataAccesses(l) == SubSeq(l, 3, Len(l))

\* C15: LDA, STA and AND zero-page,X access the one address
\* (operand + X) mod 256, which lies in 0x0000..0x00FF, whatever the
\* operand and X; LDA and AND take their byte from it and STA stores A
\* there.
C15_ZeroPageXWraps ==
    (op = "instr") =>
        LET ea == (Operand1(start) + start.X) % 256
            d  == DataAccesses(log)
        IN  /\ Len(d) = 1
            /\ d[1][2] = ea
            /\ d[1][2] \in 0..255
            /\ d[1] = IF arg.opcode = OPC_STA_ZPX
                      THEN <<"W", ea, start.A>>
                      ELSE <<"R", ea, bus_value(start.mem, ea)>>

\* LDA zp,X with operand 0xFF and X = 2 has read 0x0001, not 0x0101
C15_Witness ==
    /\ op = "instr"
    /\ arg.opcode = OPC_LDA_ZPX
    /\ Operand1(start) = 255 /\ start.X = 2
    /\ log[3] = <<"R", 1, 1>>
    /\ bus_value(start.mem, 257) = 119
    /\ A = 1

(***************************************************************************)
(* SpecIND: LDA, STA and AND in (Indirect,X) and (Indirect),Y mode, for    *)
(* every operand byte.                                                     *)
(***************************************************************************)
IndMode ==
    (OPC_LDA_INDX :> "INDX") @@ (OPC_STA_INDX :> "INDX")
    @@ (OPC_AND_INDX :> "INDX") @@ (OPC_LDA_INDY :> "INDY")
    @@ (OPC_STA_INDY :> "INDY") @@ (OPC_AND_INDY :> "INDY")

PointerIndexX == {0, 1, 2, 255}

InitIND ==
    InitOne(DOMAIN IndMode, Byte, {3}, PointerIndexX, {0, 1}, {85}, {36},
            {DataImage})

SpecIND == InitIND /\ [][ExecuteOnce]_vars

\* where the mode looks for its pointer in the zero page
PointerSlot(m, st) ==
    IF m = "INDX" THEN (Operand1(st) + st.X) % 256 ELSE Operand1(st)

\* C16: (Indirect,X) and (Indirect),Y of LDA, STA and AND read the
\* pointer's low byte at zero-page address p and its high byte at
\* (p + 1) mod 256, with p = (operand + X) mod 256 for (Indirect,X) and
\* p = operand for (Indirect),Y; for p = 0xFF the high byte is read at
\* 0x0000.  The data access then goes to the address those two bytes form
\* (plus Y for (Indirect),Y).
C16_PointerWrapsInZeroPage ==
    (op = "instr") =>
        LET m == IndMode[arg.opcode]
            p == PointerSlot(m, start)
            d == DataAccesses(log)
        IN  /\ Len(d) = 3
            /\ d[1] = <<"R", p, bus_value(start.mem, p)>>
            /\ d[2] = <<"R", (p + 1) % 256,
                        bus_value(start.mem, (p + 1) % 256)>>
            /\ (p = 255) => (d[2][2] = 0)
            /\ d[3][2] = (d[1][3] + 256 * d[2][3]
                            + (IF m = "INDY" THEN start.Y ELSE 0)) % 65536

\* LDA (zp,X) with operand 0xFE and X = 1 has read its pointer at 0x00FF and
\* 0x0000 (high byte 0x03, where 0x0100 holds 0x05) and loaded from 0x03FE
C16_Witness ==
    /\ op = "instr"
    /\ arg.opcode = OPC_LDA_INDX
    /\ Operand1(start) = 254 /\ start.X = 1
    /\ log[3] = <<"R", 255, 254>>
    /\ log[4] = <<"R", 0, 3>>
    /\ bus_value(start.mem, 256) = 5
    /\ log[5] = <<"R", 1022, 17>>
    /\ A = 17

(***************************************************************************)
(* SpecADC: ADC #imm for every accumulator, every operand and both         *)
(* carries from the reset status register, and for the bytes around the    *)
(* sign and carry boundaries from a status register with every other flag  *)
(* set.                                                                    *)
(***************************************************************************)
\* the reset value with C clear and C set; all other flags set likewise
AdcFlags     == {36, 37}
AdcFlagsFull == {254, 255}
AdcEdges     == {0, 1, 63, 64, 127, 128, 129, 192, 254, 255}

InitADC ==
    \/ InitOne({OPC_ADC_IM}, Byte, {3}, {0}, {0}, Byte, AdcFlags,
               {[a \in {} |-> 0]})
    \/ InitOne({OPC_ADC_IM}, AdcEdges, {3}, {0}, {0}, AdcEdges, AdcFlagsFull,
               {[a \in {} |-> 0]})

SpecADC == InitADC /\ [][ExecuteOnce]_vars

\* r = A + M + C of the machine the instruction found
AdcSum(st) == st.A + Operand1(st) + BitOf(st.flags, C)

\* bit 7 of a sum
Bit7(r) == (r \div 128) % 2

\* C17: ADC #imm stores A := r mod 256, sets C := (r > 0xFF) and sets
\* V := 1 exactly when the old A and M have the same sign bit and that bit
\* differs from bit 7 of r, where r = A + M + C.
C17_AdcSumCarryOverflow ==
    (op = "instr") =>
        LET r == AdcSum(start)
            M == Operand1(start)
        IN  /\ A = r % 256
            /\ BitOf(flags, C) = Bool(r > 255)
            /\ BitOf(flags, V) = Bool(/\ Bit7(start.A) = Bit7(M)
                                      /\ Bit7(r) # Bit7(M))

\* 0x80 + 0xFF + carry has given A = 0x80 with carry out and no overflow,
\* clearing a V that was set; 0x7F + 0x01 is covered by the same runs
C17_Witness ==
    /\ op = "instr"
    /\ start.A = 128 /\ Operand1(start) = 255 /\ start.flags = 255
    /\ A = 128
    /\ BitOf(flags, C) = 1
    /\ BitOf(flags, V) = 0

\* C18: ADC #imm sets Z := ((r mod 256) = 0) and N := bit 7 of r, where
\* r = A + M + C: Z and N describe the new accumulator.
C18_AdcZeroNegativeOfResult ==
    (op = "instr") =>
        LET r == AdcSum(start)
        IN  /\ BitOf(flags, Z) = Bool(r % 256 = 0)
            /\ BitOf(flags, N) = Bit7(r)

(***************************************************************************)
(* SpecAND: one AND instruction in each of its eight addressing modes.     *)
(***************************************************************************)
AndMode ==
    (OPC_AND_IM :> "IM") @@ (OPC_AND_ZP :> "ZP") @@ (OPC_AND_ZPX :> "ZPX")
    @@ (OPC_AND_ABS :> "ABS") @@ (OPC_AND_ABSX :> "ABSX")
    @@ (OPC_AND_ABSY :> "ABSY") @@ (OPC_AND_INDX :> "INDX")
    @@ (OPC_AND_INDY :> "INDY")

AndAccs == {0, 15, 129, 255}

InitAND ==
    InitOne(DOMAIN AndMode, OperandLo, OperandHi, IndexX, IndexY, AndAccs,
            PriorFlags, Images)

SpecAND == InitAND /\ [][ExecuteOnce]_vars

\* the documented base cost of each AND opcode
AndBaseCost ==
    (OPC_AND_IM :> 2) @@ (OPC_AND_ZP :> 3) @@ (OPC_AND_ZPX :> 4)
    @@ (OPC_AND_ABS :> 4) @@ (OPC_AND_ABSX :> 4) @@ (OPC_AND_ABSY :> 4)
    @@ (OPC_AND_INDX :> 6) @@ (OPC_AND_INDY :> 5)

\* the byte whose bit i is set exactly when it is set in both a and b
BothBits(a, b) ==
    LET bit(i) == ((a \div (2 ^ i)) % 2) * ((b \div (2 ^ i)) % 2) * (2 ^ i)
    IN  bit(0) + bit(1) + bit(2) + bit(3) + bit(4) + bit(5) + bit(6) + bit(7)

\* C19: one AND in any of its eight addressing modes sets A to (old A)
\* bitwise-and M, sets Z = (new A = 0) and N = bit 7 of new A, leaves C, I,
\* D, B and V as they were, and costs IM 2, ZP 3, ZPX 4, ABS 4, INDX 6, and
\* ABSX / ABSY 4 and INDY 5 plus 1 on a page cross.
C19_AndResultFlagsCost ==
    (op = "instr") =>
        LET m == AndMode[arg.opcode]
            r == BothBits(start.A, Selected(m, start))
        IN  /\ A = r
            /\ BitOf(flags, Z) = Bool(r = 0)
            /\ BitOf(flags, N) = Bit7(r)
            /\ KeepsFlags(start.flags, flags, {C, I, D, B, V})
            /\ arg.cost = AndBaseCost[arg.opcode] + Crossed(m, start)

\* AND abs,Y from base 0x0310 with Y = 0xFF has crossed to 0x040F, masked
\* 0x81 with 0x0F down to 0x01 and cost 5 cycles
C19_Witness ==
    /\ op = "instr"
    /\ arg.opcode = OPC_AND_ABSY
    /\ BaseAddr("ABSY", start) = 784 /\ start.Y = 255
    /\ start.A = 129
    /\ Selected("ABSY", start) = 15
    /\ A = 1
    /\ arg.cost = 5
    /\ start.flags = 255 /\ flags = 125

(***************************************************************************)
(* SpecASLA: ASL on the accumulator, for every accumulator value.          *)
(***************************************************************************)
\* none, reset, reset with carry, all
ShiftFlags == {0, 36, 37, 255}

InitASLA ==
    InitOne({OPC_ASL_ACC}, {0, 16}, {3}, {0, 1}, {0}, Byte, ShiftFlags,
            {DataImage})

SpecASLA == InitASLA /\ [][ExecuteOnce]_vars

\* C20: ASL A sets A := (A * 2) mod 256, C := old bit 7 of A,
\* Z := (new A = 0) and N := bit 7 of new A, writes no memory and costs
\* 2 cycles.
C20_AslAccumulator ==
    (op = "instr") =>
        LET r == (start.A * 2) % 256
        IN  /\ A = r
            /\ BitOf(flags, C) = Bit7(start.A)
            /\ BitOf(flags, Z) = Bool(r = 0)
            /\ BitOf(flags, N) = Bit7(r)
            /\ Writes(log) = <<>>
            /\ mem = start.mem
            /\ arg.cost = 2

\* 0x80 shifted out of the accumulator: A = 0 with C and Z set and N
\* cleared, the carry that was set before not shifted in
C20_Witness ==
    /\ op = "instr"
    /\ arg.opcode = OPC_ASL_ACC
    /\ start.A = 128 /\ start.flags = 255
    /\ A = 0
    /\ flags = 127
    /\ mem = start.mem

(***************************************************************************)
(* SpecASL: one instruction whose opcode byte is one of the documented     *)
(* ASL bytes or the byte opcodes.h gives OPC_ASL_ZP, over memory whose     *)
(* operand cells hold every byte.                                          *)
(***************************************************************************)
\* 0x0A, 0x06, 0x16, 0x0E, 0x1E of the instruction table
DocumentedAsl ==
    (10 :> "ACC") @@ (6 :> "ZP") @@ (22 :> "ZPX") @@ (14 :> "ABS")
    @@ (30 :> "ABSX")

\* the memory forms as the switch decodes them
AslMode ==
    (OPC_ASL_ZP :> "ZP") @@ (OPC_ASL_ZPX :> "ZPX") @@ (OPC_ASL_ABS :> "ABS")
    @@ (OPC_ASL_ABSX :> "ABSX")

\* m at 0x0010 and 0x0310, m + 77 (mod 256) at 0x0011 and 0x0311
ShiftImage(m) ==
    bus_store(bus_store(bus_store(bus_store([a \in {} |-> 0], 16, m),
                                  17, (m + 77) % 256),
                        784, m),
              785, (m + 77) % 256)

ShiftImages == { ShiftImage(m) : m \in Byte }

InitASL ==
    InitOne(DOMAIN DocumentedAsl \cup DOMAIN AslMode, {16}, {3}, {0, 1}, {0},
            {85}, ShiftFlags, ShiftImages)

SpecASL == InitASL /\ [][ExecuteOnce]_vars

\* C21: ASL on a memory operand M (zero-page, zero-page,X, absolute,
\* absolute,X) writes (M * 2) mod 256 back, sets C := old bit 7 of M,
\* N := bit 7 of the 8-bit result and Z := 1 exactly when the 8-bit result
\* stored is 0x00.
C21_AslMemory ==
    (op = "instr" /\ arg.opcode \in DOMAIN AslMode) =>
        LET ea == EffAddr(AslMode[arg.opcode], start)
            M  == bus_value(start.mem, ea)
            r  == (M * 2) % 256
        IN  /\ bus_value(mem, ea) = r
            /\ BitOf(flags, C) = Bit7(M)
            /\ BitOf(flags, N) = Bit7(r)
            /\ BitOf(flags, Z) = Bool(r = 0)

\* C22: ASL zero-page,X reads its operand from (operand + X) mod 256 and
\* writes the shifted value back to that same address; when X # 0 the byte
\* at zero-page address `operand` is left unchanged.
C22_AslZeroPageXAddress ==
    (op = "instr" /\ arg.opcode = OPC_ASL_ZPX) =>
        LET ea == (Operand1(start) + start.X) % 256
            d  == DataAccesses(log)
        IN  /\ Len(d) = 2
            /\ d[1] = <<"R", ea, bus_value(start.mem, ea)>>
            /\ d[2][1] = "W" /\ d[2][2] = ea
            /\ (start.X # 0) =>
                  (bus_value(mem, Operand1(start))
                     = bus_value(start.mem, Operand1(start)))

\* instruction length and cost of the documented ASL forms
AslLength ==
    ("ACC" :> 1) @@ ("ZP" :> 2) @@ ("ZPX" :> 2) @@ ("ABS" :> 3)
    @@ ("ABSX" :> 3)
AslCost ==
    ("ACC" :> 2) @@ ("ZP" :> 5) @@ ("ZPX" :> 6) @@ ("ABS" :> 6)
    @@ ("ABSX" :> 7)

\* C23: the bytes 0x0A, 0x06, 0x16, 0x0E and 0x1E are decoded as ASL
\* accumulator, zero-page, zero-page,X, absolute and absolute,X: each
\* consumes its operand bytes and costs 2, 5, 6, 6, 7 cycles, and 0x06
\* followed by a zero-page address shifts the byte at that address left.
C23_AslDecodedAtDocumentedBytes ==
    (op = "instr" /\ arg.opcode \in DOMAIN DocumentedAsl) =>
        LET m == DocumentedAsl[arg.opcode]
        IN  /\ PC = ToWord(start.PC + AslLength[m])
            /\ arg.cost = AslCost[m]
            /\ (m = "ZP") =>
                  (bus_value(mem, Operand1(start))
                     = (bus_value(start.mem, Operand1(start)) * 2) % 256)

(***************************************************************************)
(* SpecBIT: BIT zero-page for every accumulator and every operand byte     *)
(* from the reset flags, and both forms of BIT for the bytes around the    *)
(* sign and carry boundaries from each prior status register.              *)
(***************************************************************************)
BitMode == (OPC_BIT_ZP :> "ZP") @@ (OPC_BIT_ABS :> "ABS")

InitBIT ==
    \/ InitOne({OPC_BIT_ZP}, {16}, {3}, {0}, {0}, Byte, {36}, ShiftImages)
    \/ InitOne(DOMAIN BitMode, {16}, {3}, {0, 1}, {0, 1}, AdcEdges,
               PriorFlags, { ShiftImage(m) : m \in AdcEdges })

SpecBIT == InitBIT /\ [][ExecuteOnce]_vars

\* C24: BIT sets Z := ((A & M) = 0), N := bit 7 of M and V := bit 6 of M,
\* leaves A, X, Y, SP, the flags C, I, D, B and all memory unchanged, and
\* costs 3 (zero-page) or 4 (absolute) cycles.
C24_BitTest ==
    (op = "instr") =>
        LET m == BitMode[arg.opcode]
            M == Selected(m, start)
        IN  /\ BitOf(flags, Z) = Bool(BothBits(start.A, M) = 0)
            /\ BitOf(flags, N) = Bit7(M)
            /\ BitOf(flags, V) = (M \div 64) % 2
            /\ A = start.A /\ X = start.X /\ Y = start.Y /\ SP = start.SP
            /\ KeepsFlags(start.flags, flags, {C, I, D, B})
            /\ mem = start.mem
            /\ arg.cost = (IF m = "ZP" THEN 3 ELSE 4)

\* BIT abs of A = 0x3F against M = 0xC0 from a cleared status register:
\* no common bit, so Z, and N and V copied from M
C24_Witness ==
    /\ op = "instr"
    /\ arg.opcode = OPC_BIT_ABS
    /\ start.A = 63
    /\ Selected("ABS", start) = 192
    /\ start.flags = 0
    /\ flags = 226
    /\ A = 63
    /\ arg.cost = 4

(***************************************************************************)
(* SpecBranch: one branch instruction, each of the eight opcodes, at the   *)
(* start, near the end of a page and at the end of the address space, for  *)
(* every combination of the flags C, Z, V and N.                           *)
(***************************************************************************)
\* the flag each branch opcode tests and the value it branches on
BranchTest ==
    (OPC_BCC_REL :> <<C, 0>>) @@ (OPC_BCS_REL :> <<C, 1>>)
    @@ (OPC_BNE_REL :> <<Z, 0>>) @@ (OPC_BEQ_REL :> <<Z, 1>>)
    @@ (OPC_BPL_REL :> <<N, 0>>) @@ (OPC_BMI_REL :> <<N, 1>>)
    @@ (OPC_BVC_REL :> <<V, 0>>) @@ (OPC_BVS_REL :> <<V, 1>>)

\* 0x0200, 0x02FD, 0xFFFE
BranchStarts  == {PRG_START, 765, 65534}
BranchOffsets == {0, 1, 2, 127, 128, 253, 254, 255}
\* I and U set as after reset, with every combination of C, Z, V, N
BranchFlags   ==
    { 36 + c + 2 * z + 64 * v + 128 * n : c, z, v, n \in {0, 1} }

InitBranch ==
    /\ PC \in BranchStarts /\ SP = 255
    /\ A = 85 /\ X = 0 /\ Y = 0
    /\ flags \in BranchFlags
    /\ \E opcode \in DOMAIN BranchTest, offset \in BranchOffsets :
          mem = bus_store(bus_store(DataImage, PC, opcode),
                          ToWord(PC + 1), offset)
    /\ cycles \in OneBudget
    /\ mode = "run"
    /\ log = <<>>
    /\ op = "init"
    /\ arg = <<>>
    /\ calls = 0
    /\ trail = <<>>
    /\ start = Machine(Cpu)

SpecBranch == InitBranch /\ [][ExecuteOnce]_vars

\* whether the branch at start.PC is to be taken, and where it leads
Taken(st) ==
    LET t == BranchTest[bus_value(st.mem, st.PC)]
    IN  BitOf(st.flags, t[1]) = t[2]

Following(st) == (st.PC + 2) % 65536

Target(st) ==
    LET o == Operand1(st)
    IN  (Following(st) + (IF o >= 128 THEN o - 256 ELSE o) + 65536) % 65536

\* C25: each branch opcode consumes exactly one operand byte, tests only
\* its own predicate, leaves PC = a + 2 when the predicate is false and
\* PC = a + 2 + sign_extend(operand) (mod 65536) when it is true, and
\* changes no flag, no register other than PC and no memory byte.
C25_BranchSelfContained ==
    (op = "instr") =>
        /\ log = << <<"R", start.PC, arg.opcode>>,
                    <<"R", ToWord(start.PC + 1), Operand1(start)>> >>
        /\ PC = (IF Taken(start) THEN Target(start) ELSE Following(start))
        /\ flags = start.flags
        /\ A = start.A /\ X = start.X /\ Y = start.Y /\ SP = start.SP
        /\ mem = start.mem

\* C26: BCC and BCS cost 2 cycles when not taken, 3 when taken to a target
\* in the page of the address following the instruction, and 4 when taken
\* to a target in another page.
C26_CarryBranchCost ==
    (op = "instr" /\ arg.opcode \in {OPC_BCC_REL, OPC_BCS_REL}) =>
        arg.cost = (IF ~Taken(start) THEN 2
                    ELSE IF Target(start) \div 256 = Following(start) \div 256
                         THEN 3 ELSE 4)

\* BCC at 0x02FD with offset +1 and C clear has reached 0x0300 for 4 cycles
C26_Witness ==
    /\ op = "instr"
    /\ arg.opcode = OPC_BCC_REL
    /\ start.PC = 765 /\ Operand1(start) = 1
    /\ BitOf(start.flags, C) = 0
    /\ PC = 768
    /\ arg.cost = 4

(***************************************************************************)
(* SpecBRK: one BRK instruction at the start of the program, two bytes     *)
(* before a page boundary and at the last address, for every prior status  *)
(* register and stack pointers at both ends of the stack page.             *)
(***************************************************************************)
\* 0x0200, 0x02FE, 0xFFFF
BrkStarts == {PRG_START, 766, 65535}
\* the vector at 0xFFFE/F is 0x8134 in DataImage, 0x1234 here
VectorImage == (65534 :> 52) @@ (65535 :> 18) @@ (509 :> 170) @@ (511 :> 85)

InitBRK ==
    /\ PC \in BrkStarts /\ SP \in StackStarts
    /\ A = 85 /\ X \in {0, 1} /\ Y = 0
    /\ flags \in Byte
    /\ \E image \in {DataImage, VectorImage} :
          mem = bus_store(image, PC, OPC_BRK_IMP)
    /\ cycles \in OneBudget
    /\ mode = "run"
    /\ log = <<>>
    /\ op = "init"
    /\ arg = <<>>
    /\ calls = 0
    /\ trail = <<>>
    /\ start = Machine(Cpu)

SpecBRK == InitBRK /\ [][ExecuteOnce]_vars

\* the stack cell the k-th push of an instruction goes to
PushSlot(st, k) == 256 + ((st.SP + 256 - (k - 1)) % 256)

\* C27: BRK at address a pushes the return address a + 2, high byte first
\* and then the low byte.
C27_BrkPushesReturnAddress ==
    (op = "instr") =>
        LET ret == (start.PC + 2) % 65536
        IN  /\ log[2] = <<"W", PushSlot(start, 1), ret \div 256>>
            /\ log[3] = <<"W", PushSlot(start, 2), ret % 256>>

\* C28: BRK decreases SP by exactly 3 (mod 256), stores on the stack a
\* status byte whose B bit is 1, leaves the live status register with
\* B = 0 and I = 1, loads PC with the little-endian word at 0xFFFE/0xFFFF
\* and costs 7 cycles.
C28_BrkProtocol ==
    (op = "instr") =>
        /\ SP = (start.SP + 256 - 3) % 256
        /\ log[4][1] = "W" /\ log[4][2] = PushSlot(start, 3)
        /\ BitOf(log[4][3], B) = 1
        /\ bus_value(mem, PushSlot(start, 3)) = log[4][3]
        /\ BitOf(flags, B) = 0
        /\ BitOf(flags, I) = 1
        /\ PC = bus_value(start.mem, 65534) + 256 * bus_value(start.mem, 65535)
        /\ arg.cost = 7

\* BRK with SP = 1 and B set, I clear before: the three pushes went to
\* 0x0101, 0x0100 and 0x01FF, SP wrapped to 0xFE, and PC is the vector
C28_Witness ==
    /\ op = "instr"
    /\ arg.opcode = OPC_BRK_IMP
    /\ start.PC = PRG_START /\ start.SP = 1 /\ start.flags = 16
    /\ SP = 254
    /\ log[4][2] = 511
    /\ BitOf(bus_value(mem, 511), B) = 1
    /\ flags = 36
    /\ PC = 4660

\* C29: the status byte BRK writes to the stack is the status register as
\* it was before BRK with only B and U forced to 1, so its I bit is the I
\* flag as it was before BRK executed.
C29_BrkPushesStatusBeforeI ==
    (op = "instr") =>
        /\ log[4][3] = BitOr(start.flags, 48)
        /\ BitOf(log[4][3], I) = BitOf(start.flags, I)

\* C34: BRK at address a pushes the word a + 3 (mod 65536), high byte
\* first; with BRK at 0x0200 and SP = 0xFF the bytes at 0x01FF and 0x01FE
\* are 0x02 and 0x03 and SP ends at 0xFC.
C34_BrkPushesOpcodeAddressPlus3 ==
    (op = "instr") =>
        LET pushed == (start.PC + 3) % 65536
        IN  /\ log[2] = <<"W", PushSlot(start, 1), pushed \div 256>>
            /\ log[3] = <<"W", PushSlot(start, 2), pushed % 256>>
            /\ bus_value(mem, PushSlot(start, 1)) = pushed \div 256
            /\ bus_value(mem, PushSlot(start, 2)) = pushed % 256
            /\ (start.PC = PRG_START /\ start.SP = 255) =>
                  /\ bus_value(mem, 511) = 2
                  /\ bus_value(mem, 510) = 3
                  /\ SP = 252

\* the case of test_brk: BRK at 0x0200 with SP = 0xFF
C34_Witness ==
    /\ op = "instr"
    /\ arg.opcode = OPC_BRK_IMP
    /\ start.PC = PRG_START /\ start.SP = 255
    /\ bus_value(mem, 511) = 2 /\ bus_value(mem, 510) = 3
    /\ SP = 252

(***************************************************************************)
(* SpecOther: one instruction whose opcode byte is none of those the       *)
(* instruction table lists.                                                *)
(***************************************************************************)
\* every opcode byte of the instruction table
Recognized ==
    DOMAIN LdaMode \cup DOMAIN StaMode \cup {OPC_ADC_IM} \cup DOMAIN AndMode
    \cup DOMAIN DocumentedAsl \cup DOMAIN BitMode \cup DOMAIN BranchTest
    \cup {OPC_BRK_IMP}

InitOther ==
    InitOne(Byte \ Recognized, OperandLo, {3}, {0, 1}, {0}, AccVals,
            PriorFlags, {DataImage})

SpecOther == InitOther /\ [][ExecuteOnce]_vars

\* C30: an opcode byte that is not in the recognized set costs exactly
\* 1 cycle, advances PC by exactly 1 and leaves A, X, Y, SP, P and all
\* memory unchanged.
C30_UnrecognizedIsNoOp ==
    (op = "instr") =>
        /\ arg.cost = 1
        /\ PC = ToWord(start.PC + 1)
        /\ A = start.A /\ X = start.X /\ Y = start.Y /\ SP = start.SP
        /\ flags = start.flags
        /\ mem = start.mem

(***************************************************************************)
(* SpecLen: one LDA, STA, ADC, AND, ASL or BIT instruction in each         *)
(* addressing mode the switch implements, at the start of the program and  *)
(* at the last three addresses, where the program counter wraps.           *)
(***************************************************************************)
\* the addressing mode of every such opcode of the switch
ModeOf ==
    LdaMode @@ StaMode @@ (OPC_ADC_IM :> "IM") @@ AndMode
    @@ (OPC_ASL_ACC :> "ACC") @@ AslMode @@ BitMode

\* operand bytes of each addressing mode
OperandBytes ==
    ("ACC" :> 0) @@ ("IM" :> 1) @@ ("ZP" :> 1) @@ ("ZPX" :> 1)
    @@ ("INDX" :> 1) @@ ("INDY" :> 1) @@ ("ABS" :> 2) @@ ("ABSX" :> 2)
    @@ ("ABSY" :> 2)

\* 0x0200, 0xFFFD, 0xFFFE, 0xFFFF
LenStarts == {PRG_START, 65533, 65534, 65535}

InitLen ==
    /\ PC \in LenStarts /\ SP = 255
    /\ A = 85 /\ X \in {0, 1} /\ Y \in {0, 1}
    /\ flags \in {36, 255}
    /\ \E opcode \in DOMAIN ModeOf, b1 \in {16, 255}, b2 \in OperandHi :
          mem = bus_store(bus_store(bus_store(DataImage, PC, opcode),
                                    ToWord(PC + 1), b1),
                          ToWord(PC + 2), b2)
    /\ cycles \in OneBudget
    /\ mode = "run"
    /\ log = <<>>
    /\ op = "init"
    /\ arg = <<>>
    /\ calls = 0
    /\ trail = <<>>
    /\ start = Machine(Cpu)

SpecLen == InitLen /\ [][ExecuteOnce]_vars

\* C31: one LDA, STA, ADC, AND, ASL or BIT instruction at address a leaves
\* PC = (a + 1 + n) mod 65536, n being the operand byte count of its
\* addressing mode: 0 for accumulator, 1 for immediate, zero-page,
\* zero-page,X, (Indirect,X), (Indirect),Y and 2 for absolute, absolute,X
\* and absolute,Y.
C31_PcAdvancesByLength ==
    (op = "instr") =>
        PC = (start.PC + 1 + OperandBytes[ModeOf[arg.opcode]]) % 65536

\* LDA abs,Y whose opcode sits at 0xFFFF: the operand bytes came from 0x0000
\* and 0x0001 and PC is 0x0002
C31_Witness ==
    /\ op = "instr"
    /\ arg.opcode = OPC_LDA_ABSY
    /\ start.PC = 65535
    /\ log[2][2] = 0 /\ log[3][2] = 1
    /\ PC = 2

(***************************************************************************)
(* SpecDec: one ADC #imm from every value of the status register, so that  *)
(* each state has its twin with the D bit inverted.                        *)
(***************************************************************************)
\* operands at the byte edges and at the decimal digit edges 0x09, 0x99
DecEdges == {0, 1, 9, 127, 128, 153, 255}

InitDec ==
    InitOne({OPC_ADC_IM}, DecEdges, {3}, {0}, {0}, DecEdges, Byte,
            {DataImage})

SpecDec == InitDec /\ [][ExecuteOnce]_vars

\* the machine st with bit 3 of P inverted, ready to run on the same budget
DecimalTwin(st, budget) ==
    [PC |-> st.PC, SP |-> st.SP, A |-> st.A, X |-> st.X, Y |-> st.Y,
     flags |-> BitXor(st.flags, 8), mem |-> st.mem, cycles |-> budget,
     log |-> <<>>]

\* C32: the D flag has no effect on arithmetic: from two states that differ
\* only in bit 3 of P, the same ADC #imm leaves the same A and the same
\* C, Z, V and N, and leaves D as it was in each of them.
C32_DecimalFlagIgnored ==
    (op = "instr") =>
        LET twin == ExecuteOne(DecimalTwin(start, arg.budget))
        IN  /\ A = twin.A
            /\ KeepsFlags(twin.flags, flags, {C, Z, V, N})
            /\ BitOf(flags, D) = BitOf(start.flags, D)
            /\ BitOf(twin.flags, D) = 1 - BitOf(start.flags, D)

\* 0x09 + 0x01 with D set and C clear: A is 0x0A, as it is with D clear
C32_Witness ==
    /\ op = "instr"
    /\ arg.opcode = OPC_ADC_IM
    /\ BitOf(start.flags, D) = 1
    /\ BitOf(start.flags, C) = 0
    /\ start.A = 9 /\ Operand1(start) = 1
    /\ A = 10
    /\ ExecuteOne(DecimalTwin(start, arg.budget)).A = 10
    /\ BitOf(flags, D) = 1

(***************************************************************************)
(* SpecFlag: one cpu_set_flag call, on any flag with any of a few byte     *)
(* values, from every value of the status register.                        *)
(***************************************************************************)
AllFlags   == {C, Z, I, D, B, U, V, N}
FlagValues == {0, 1, 2, 128, 255}

InitFlag ==
    /\ PC = PRG_START /\ SP = 255
    /\ A = 0 /\ X = 0 /\ Y = 0
    /\ flags \in Byte
    /\ mem = DataImage
    /\ cycles = 0
    /\ mode = "idle"
    /\ log = <<>>
    /\ op = "init"
    /\ arg = <<>>
    /\ calls = 0
    /\ trail = <<>>
    /\ start = Machine(Cpu)

SetAnyFlag ==
    /\ op = "init"
    /\ \E flag \in AllFlags, value \in FlagValues :
          /\ Install(cpu_set_flag(flag, value, Cpu))
          /\ arg' = <<flag, value>>
    /\ op' = "set_flag"
    /\ calls' = calls + 1
    /\ UNCHANGED <<mode, trail, start>>

SpecFlag == InitFlag /\ [][SetAnyFlag]_vars

\* C33: cpu_set_flag(f, v) makes bit f of P 0 when v = 0 and 1 for every
\* other byte v, then forces bit 5 to 1, and changes no other bit; so
\* cpu_set_flag(U, 0) leaves U = 1, and cpu_read_flag(f) afterwards returns
\* the value just set for every flag f other than U.
C33_SetFlagForcesU ==
    (op = "set_flag") =>
        LET f == arg[1]
            v == arg[2]
        IN  /\ \A b \in 0..7 :
                  BitOf(flags, b) =
                      IF b = U THEN 1
                      ELSE IF b = f THEN Bool(v # 0)
                      ELSE BitOf(start.flags, b)
            /\ (f # U) => cpu_read_flag(f, Cpu) = Bool(v # 0)
            /\ Machine(Cpu) = [start EXCEPT !.flags = flags]

\* cpu_set_flag(U, 0) on the status register of a reset CPU: P stays 0x24
C33_Witness ==
    /\ op = "set_flag"
    /\ arg = <<U, 0>>
    /\ start.flags = 36
    /\ flags = 36

(***************************************************************************)
(* SpecAll: one pass of the loop of cpu_execute on each of the 256 opcode  *)
(* bytes, from two stack pointers and several index registers.             *)
(***************************************************************************)
\* the opcodes of the switch whose case calls bus_write or stack_push
Storing == DOMAIN StaMode \cup DOMAIN AslMode \cup {OPC_BRK_IMP}

InitAll ==
    /\ PC = PRG_START /\ SP \in {255, 1}
    /\ A = 85 /\ X \in {0, 1, 255} /\ Y \in {0, 2}
    /\ flags \in {36, 255}
    /\ \E opcode \in Byte, b1 \in {16, 255}, b2 \in OperandHi :
          mem = Program(DataImage, opcode, b1, b2)
    /\ cycles \in OneBudget
    /\ mode = "run"
    /\ log = <<>>
    /\ op = "init"
    /\ arg = <<>>
    /\ calls = 0
    /\ trail = <<>>
    /\ start = Machine(Cpu)

SpecAll == InitAll /\ [][ExecuteOnce]_vars

RECURSIVE Stored(_, _)
\* the memory image m after the writes of the sequence w, in order
Stored(m, w) ==
    IF w = <<>> THEN m
    ELSE Stored(bus_store(m, w[1][2], w[1][3]), Tail(w))

\* C35: during cpu_execute memory is written only by STA (exactly one
\* byte: the effective address receives A), by ASL in a memory addressing
\* mode (exactly one byte) and by BRK (exactly three bytes, all within
\* 0x0100..0x01FF); LDA, ADC, AND, BIT, ASL accumulator, every branch
\* opcode and every unrecognized opcode leave all memory unchanged.
C35_OnlyStaAslBrkWrite ==
    (op = "instr") =>
        LET w == Writes(log)
            o == arg.opcode
        IN  /\ mem = Stored(start.mem, w)
            /\ (o \in DOMAIN StaMode) =>
                  w = << <<"W", EffAddr(StaMode[o], start), start.A>> >>
            /\ (o \in DOMAIN AslMode) => Len(w) = 1
            /\ (o = OPC_BRK_IMP) =>
                  /\ Len(w) = 3
                  /\ Cardinality({ w[i][2] : i \in 1..3 }) = 3
                  /\ \A i \in 1..3 : w[i][2] \in 256..511
            /\ (o \notin Storing) => (w = <<>> /\ mem = start.mem)

\* BNE, whose case runs on into the cases of the other branches and of
\* BIT zero-page, has finished without a single write
C35_Witness ==
    /\ op = "instr"
    /\ arg.opcode = OPC_BNE_REL
    /\ Len(log) > 2
    /\ Writes(log) = <<>>
    /\ mem = start.mem

(***************************************************************************)
(* SpecRun: an embedder that only writes memory through the bus and calls  *)
(* cpu_execute.  A run starts either right after cpu_reset or from         *)
(* registers the embedder has set itself, as the test harness does; trail  *)
(* keeps which.  start is the machine at the entry of the last call.       *)
(***************************************************************************)
MaxRunSteps == 5

\* the reset PC and the two bytes after it
RunAddrs   == {511, 512, 513}
\* LDA #imm, BIT zp, ADC #imm, and 0xFF (no case of the switch)
RunBytes   == {OPC_LDA_IM, OPC_BIT_ZP, OPC_ADC_IM, 255}
RunBudgets == {0, 2, 3, 7}

InitRun ==
    /\ \/ /\ LET r == cpu_reset(ZeroCpu)
             IN  /\ PC = r.PC /\ SP = r.SP /\ A = r.A /\ X = r.X /\ Y = r.Y
                 /\ flags = r.flags /\ mem = r.mem
          /\ trail = <<"cpu_reset">>
       \/ /\ PC = PRG_START /\ SP \in {255, 1}
          /\ A = 85 /\ X = 1 /\ Y = 255
          /\ flags \in {0, 255}
          /\ mem = DataImage
          /\ trail = <<"registers">>
    /\ cycles = 0
    /\ mode = "idle"
    /\ log = <<>>
    /\ op = "init"
    /\ arg = <<>>
    /\ calls = 0
    /\ start = Machine(Cpu)

\* variant: the loop also runs on a budget of 0
LoopTest_inclusive(c) == c >= 0

\* the test of the loop of cpu_execute
LoopTest(c) == c > 0

RunWrite ==
    /\ mode = "idle"
    /\ calls < MaxRunSteps
    /\ \E addr \in RunAddrs, data \in RunBytes :
          /\ Install(bus_write(Cpu, addr, data))
          /\ arg' = <<addr, data>>
    /\ op' = "bus_write"
    /\ calls' = calls + 1
    /\ UNCHANGED <<mode, trail, start>>

\* cpu_execute is entered with a budget
RunExecute ==
    /\ mode = "idle"
    /\ calls < MaxRunSteps
    /\ \E budget \in RunBudgets :
          /\ cycles' = budget
          /\ arg' = [budget |-> budget, fetched |-> 0]
    /\ mode' = "run"
    /\ op' = "execute"
    /\ log' = <<>>
    /\ start' = Machine(Cpu)
    /\ calls' = calls + 1
    /\ UNCHANGED <<PC, SP, A, X, Y, flags, mem, trail>>

\* one pass of the loop: an opcode is fetched and its case run
RunInstr ==
    /\ mode = "run"
    /\ LoopTest(cycles)
    /\ calls < MaxRunSteps
    /\ Install(ExecuteOne(Cpu))
    /\ arg' = [arg EXCEPT !.fetched = @ + 1]
    /\ op' = "instr"
    /\ calls' = calls + 1
    /\ UNCHANGED <<mode, trail, start>>

\* the loop test fails: cpu_execute returns
RunReturn ==
    /\ mode = "run"
    /\ ~LoopTest(cycles)
    /\ mode' = "idle"
    /\ op' = "return"
    /\ UNCHANGED <<PC, SP, A, X, Y, flags, mem, cycles, log, arg, calls,
                   trail, start>>

NextRun ==
    \/ RunWrite
    \/ RunExecute
    \/ RunInstr
    \/ RunReturn

SpecRun == InitRun /\ [][NextRun]_vars

\* C36: cpu_execute never modifies X or Y and modifies SP only when a BRK
\* instruction executes, each BRK lowering SP by exactly 3 (mod 256); so
\* in a run that starts with cpu_reset and uses only cpu_execute, X = 0
\* and Y = 0 in every state.
C36_ExecuteKeepsIndexRegisters ==
    /\ [][(mode = "run" \/ mode' = "run") =>
             /\ X' = X
             /\ Y' = Y
             /\ SP' = IF op' = "instr" /\ bus_value(mem, PC) = OPC_BRK_IMP
                      THEN (SP + 256 - 3) % 256
                      ELSE SP]_vars
    /\ [](trail = <<"cpu_reset">> => (X = 0 /\ Y = 0))

\* after cpu_reset, LDA #0xFF at the reset PC and then the BRK of the
\* zeroed memory have run: A is loaded, SP is 0xFC, X and Y are still 0
C36_Witness ==
    /\ trail = <<"cpu_reset">>
    /\ op = "instr"
    /\ arg.fetched = 2
    /\ A = 255
    /\ SP = 252
    /\ X = 0 /\ Y = 0


\* C37: in a run that starts with cpu_reset and then performs only
\* cpu_execute calls, with memory writes by the embedder between them, the
\* status register has I = 1, D = 0 and B = 0 at every return from
\* cpu_execute.
C37_ReturnsWithIOnly ==
    (trail = <<"cpu_reset">> /\ op = "return") =>
        /\ BitOf(flags, I) = 1
        /\ BitOf(flags, D) = 0
        /\ BitOf(flags, B) = 0

\* cpu_execute(7) right after cpu_reset has run the BRK of the zeroed
\* memory and returned: the pushed status has B, the live one does not
C37_Witness ==
    /\ trail = <<"cpu_reset">>
    /\ op = "return"
    /\ arg = [budget |-> 7, fetched |-> 1]
    /\ SP = 252
    /\ BitOf(bus_value(mem, 509), B) = 1
    /\ flags = 36

\* C38: cpu_execute called with a budget of 0 fetches no opcode and leaves
\* PC, SP, A, X, Y, P and all memory unchanged, whatever the CPU state and
\* the memory image.
C38_ZeroBudgetDoesNothing ==
    (op \in {"execute", "instr", "return"} /\ arg.budget = 0) =>
        /\ arg.fetched = 0
        /\ log = <<>>
        /\ Machine(Cpu) = start

\* cpu_execute(0) has returned, after an embedder write, to registers the
\* embedder had set
C38_Witness ==
    /\ trail = <<"registers">>
    /\ op = "return"
    /\ arg = [budget |-> 0, fetched |-> 0]
    /\ bus_value(mem, PRG_START) = OPC_ADC_IM
    /\ PC = PRG_START /\ SP = 1 /\ flags = 255
    /\ A = 85 /\ X = 1 /\ Y = 255


=============================================================================
